---- MODULE Spec2Model ----
(***************************************************************************)
(* Model of the VehicleInsurance training pipeline: TrainPipeline and the  *)
(* six stage components it sequences (ingestion, validation,               *)
(* transformation, training, evaluation, promotion), the local artifact    *)
(* files they persist and the S3 model store they read and write.          *)
(***************************************************************************)
EXTENDS Integers, Sequences, FiniteSets, TLC

\* ---------------------------------------------------------------- bounds
\* Largest number of records the source collection holds.
MaxRows == 3
\* Scores (accuracy, F1, precision, recall) are the fractions k/ScoreScale.
ScoreScale == 2
\* Consecutive runs of the model pusher on one evaluation artifact.
MaxPushes == 2
\* Connection objects one process creates.
MaxConnections == 7
\* Calls made on one ProjEstimator.
MaxCalls == 4

\* ------------------------------------------------------- optional values
\* Python's None and a present value; every Optional is a 0/1-length tuple.
None == <<>>
Some(x) == <<x>>
IsSome(o) == Len(o) = 1
Get(o) == o[1]

\* ---------------------------------------------------------------- scores
Scores == 0..ScoreScale
\* expected_accuracy: any score, or ScoreScale + 1 for a floor above 1.0.
Floors == 0..(ScoreScale + 1)

\* ---------------------------------------------------------------- schema
\* self._schema_config["columns"], ["numerical_columns"],
\* ["categorical_columns"]; "id" is declared but neither numerical nor
\* categorical, "extra" is a column the schema does not declare.
SchemaColumns == {"id", "Gender", "Age", "Response"}
NumericalColumns == {"Age", "Response"}
CategoricalColumns == {"Gender"}
AllColumns == SchemaColumns \cup {"extra"}
ColumnSets == SUBSET AllColumns

\* train_test_split_ratio of the ingestion configuration, as a fraction.
TestSizeNum == 1
TestSizeDen == 5

\* ----------------------------------------------------------- local paths
FeatureStoreFile == "feature_store_file_path"
TrainingFile == "training_file_path"
TestingFile == "testing_file_path"
ReportFile == "validation_report_file_path"
TransformedObjectFile == "transformed_object_file_path"
TransformedTrainFile == "transformed_train_file_path"
TransformedTestFile == "transformed_test_file_path"
TrainedModelFile == "trained_model_file_path"
Paths == {FeatureStoreFile, TrainingFile, TestingFile, ReportFile,
          TransformedObjectFile, TransformedTrainFile, TransformedTestFile,
          TrainedModelFile}

\* ----------------------------------------------------------- model store
\* Keys are sequences of character groups so that Prefix= can be computed:
\* the configured model key and a key that merely starts with it.
BucketName == "bucket_name"
ModelKey == <<"model.pkl">>
LongerKey == <<"model.pkl", ".bak">>
S3Keys == {ModelKey, LongerKey}
\* model_evaluation_config.s3_model_key_path, model_pusher_config.s3_model_key_path
EvalModelKey == ModelKey
PusherModelKey == ModelKey

IsPrefix(p, s) == Len(p) <= Len(s) /\ SubSeq(s, 1, Len(p)) = p

\* A bundle is MyModel(preprocessing_object, trained_model_object).
MyModel(pre, mdl) == [preprocessing_object |-> pre, trained_model_object |-> mdl]
\* The bundle an earlier run deployed: fitted on data (row 0) of that run.
IncumbentBundle == MyModel([fitted_on |-> {0}], [trained_on |-> {0}])

\* ------------------------------------------------------------------ state
VARIABLES
    pc,                            \* position of run_pipeline
    calls,                         \* stage invocations so far, with arguments
    data_ingestion_artifact,       \* locals of run_pipeline (None until returned)
    data_validation_artifact,
    data_transformation_artifact,
    model_trainer_artifact,
    model_evaluation_artifact,
    model_pusher_artifact,
    evaluate_model_response,       \* EvaluateModelResponse of evaluate_model
    fs,                            \* local files: path -> Optional content
    bucket,                        \* S3 bucket: key -> Optional bundle
    expected_accuracy,             \* model_trainer_config.expected_accuracy
    train_accuracy,                \* accuracy recomputed on the train matrix
    error,                         \* exception raised to the caller, or None
    S3Client,                      \* class attributes _s3_client, _s3_resource
    MongoDBClient,                 \* class attribute client
    s3_instances,                  \* attributes of the S3Client instances built
    mongo_instances,               \* attributes of the MongoDBClient instances built
    created,                       \* connection objects created so far
    logged,                        \* store errors written to the log and swallowed
    loaded_model                   \* ProjEstimator.loaded_model: the cached bundle

artifacts == <<data_ingestion_artifact, data_validation_artifact,
               data_transformation_artifact, model_trainer_artifact,
               model_evaluation_artifact, model_pusher_artifact>>
vars == <<pc, calls, data_ingestion_artifact, data_validation_artifact,
          data_transformation_artifact, model_trainer_artifact,
          model_evaluation_artifact, model_pusher_artifact,
          evaluate_model_response, fs, bucket, expected_accuracy,
          train_accuracy, error, S3Client, MongoDBClient, s3_instances,
          mongo_instances, created, logged, loaded_model>>
\* The state of the two connection classes.
s3_connection == <<S3Client, s3_instances>>
mongo_connection == <<MongoDBClient, mongo_instances>>

\* CustomException(e, sys): every wrapper keeps str(e) as the message suffix
\* and reports the deepest traceback frame, so the exception is the stage it
\* left, the function that raised first and the innermost message.
CustomException(stage, origin, message) ==
    [stage |-> stage, origin |-> origin, message |-> message]

Call(stage, args) == [stage |-> stage, args |-> args]

\* ------------------------------------------------- connection singletons
\* Connection objects are numbered in the order they are created.
NoS3Client == [s3_client |-> None, s3_resource |-> None]
NoMongoDBClient == [client |-> None]

S3ClientFaults == {"s3_env", "s3_init", "s3_client"}
MissingEnvironmentVariable == <<"Missing environment variable">>
S3InitializationFailed == <<"AWS S3 initialization failed. Check credentials and network.">>

\* S3Client._initialize_s3_connection: a credential missing from the
\* environment raises before anything is created; boto3.resource is
\* assigned before boto3.client is called, so a failing client call leaves
\* the new resource in the class.
initialize_s3_connection(cls, n, fault) ==
    IF fault = "s3_env"
    THEN [ok |-> FALSE, message |-> MissingEnvironmentVariable,
          S3Client |-> cls, created |-> n]
    ELSE IF fault = "s3_init"
    THEN [ok |-> FALSE, message |-> S3InitializationFailed,
          S3Client |-> cls, created |-> n]
    ELSE IF fault = "s3_client"
    THEN [ok |-> FALSE, message |-> S3InitializationFailed,
          S3Client |-> [cls EXCEPT !.s3_resource = Some(n + 1)], created |-> n + 1]
    ELSE [ok |-> TRUE, message |-> <<>>,
          S3Client |-> [s3_resource |-> Some(n + 1), s3_client |-> Some(n + 2)],
          created |-> n + 2]

\* Variant: the connection is initialised only when no resource is set.
S3Client_init_checks_resource_only(cls, n, fault) ==
    LET initialized == IF cls.s3_resource = None
                       THEN initialize_s3_connection(cls, n, fault)
                       ELSE [ok |-> TRUE, message |-> <<>>, S3Client |-> cls,
                             created |-> n]
    IN  initialized @@
        [instance |-> IF initialized.ok THEN Some(initialized.S3Client) ELSE None]

\* S3Client.__init__: the connection is initialised unless both class
\* attributes are set; the instance copies the class attributes.
S3Client_init(cls, n, fault) ==
    LET initialized == IF cls.s3_client = None \/ cls.s3_resource = None
                       THEN initialize_s3_connection(cls, n, fault)
                       ELSE [ok |-> TRUE, message |-> <<>>, S3Client |-> cls,
                             created |-> n]
    IN  initialized @@
        [instance |-> IF initialized.ok THEN Some(initialized.S3Client) ELSE None]

MongoDBClientFaults == {"mongo_env", "connect"}

\* MongoDBClient.__init__: the shared client is created when the class
\* attribute is None; the class attribute is assigned only when MongoClient
\* returned.
MongoDBClient_init(cls, n, fault) ==
    LET initialized ==
            IF cls.client # None
            THEN [ok |-> TRUE, message |-> <<>>, MongoDBClient |-> cls, created |-> n]
            ELSE IF fault = "mongo_env"
            THEN [ok |-> FALSE, message |-> <<"Environment variable is not set.">>,
                  MongoDBClient |-> cls, created |-> n]
            ELSE IF fault = "connect"
            THEN [ok |-> FALSE, message |-> <<"MongoDB connection error">>,
                  MongoDBClient |-> cls, created |-> n]
            ELSE [ok |-> TRUE, message |-> <<>>,
                  MongoDBClient |-> [client |-> Some(n + 1)], created |-> n + 1]
    IN  initialized @@
        [instance |-> IF initialized.ok THEN Some(initialized.MongoDBClient) ELSE None]

\* ------------------------------------------------------------------- Init
\* TrainPipeline.__init__: only the configurations exist; the artifact
\* directory of the run is fresh, the model store holds whatever earlier
\* runs left.
Init ==
    /\ pc = "ingestion"
    /\ calls = <<>>
    /\ data_ingestion_artifact = None
    /\ data_validation_artifact = None
    /\ data_transformation_artifact = None
    /\ model_trainer_artifact = None
    /\ model_evaluation_artifact = None
    /\ model_pusher_artifact = None
    /\ evaluate_model_response = None
    /\ fs = [p \in Paths |-> None]
    /\ bucket \in [S3Keys -> {None, Some(IncumbentBundle)}]
    /\ expected_accuracy \in Floors
    /\ train_accuracy = None
    /\ error = None
    /\ S3Client = NoS3Client
    /\ MongoDBClient = NoMongoDBClient
    /\ s3_instances = {}
    /\ mongo_instances = {}
    /\ created = 0
    /\ logged = {}
    /\ loaded_model = None

\* A stage call either returns an artifact or raises; either way it leaves
\* the local files as it wrote them up to that point.  A raise names the
\* function it started in (the file and line error_message_detail reports).
Returned(artifact, files) ==
    [ok |-> TRUE, origin |-> "", message |-> <<>>, artifact |-> Some(artifact),
     fs |-> files]
Raised(origin, message, files) ==
    [ok |-> FALSE, origin |-> origin, message |-> message, artifact |-> None,
     fs |-> files]
WriteFile(files, path, content) == [files EXCEPT ![path] = Some(content)]

\* -------------------------------------------------------------- Ingestion
IngestionFaults == {"none", "mongo_env", "connect", "fetch", "feature_store",
                    "train_write", "test_write"}

\* DataFrame.empty: no rows or no columns.
DataFrameEmpty(dataframe) == dataframe.rows = {} \/ dataframe.columns = {}

\* sklearn's row count of the test partition for a float test_size: ceil(r * n).
NTest(n) == (TestSizeNum * n + TestSizeDen - 1) \div TestSizeDen

\* Variant: an empty export is written to the feature store like any other.
export_data_into_feature_store_unchecked(files, cls, n, dataframe, fault) ==
    LET my_data == MongoDBClient_init(cls, n, fault)
    IN  (IF ~my_data.ok
         THEN Raised("MongoDBClient", my_data.message, files)
         ELSE IF fault = "fetch"
         THEN Raised("export_collection_as_dataframe", <<"Error fetching data from collection">>, files)
         ELSE IF fault = "feature_store"
         THEN Raised("export_data_into_feature_store", <<"feature store file not writable">>, files)
         ELSE Returned(dataframe, WriteFile(files, FeatureStoreFile, dataframe)))
        @@ my_data

\* cls and n are the MongoDBClient class state and the number of connection
\* objects created so far; VehicleInsuranceData() builds a MongoDBClient
\* before anything is fetched.
export_data_into_feature_store(files, cls, n, dataframe, fault) ==
    LET my_data == MongoDBClient_init(cls, n, fault)
    IN  (IF ~my_data.ok
         THEN Raised("MongoDBClient", my_data.message, files)
         ELSE IF fault = "fetch"
         THEN Raised("export_collection_as_dataframe", <<"Error fetching data from collection">>, files)
         ELSE IF DataFrameEmpty(dataframe)
         THEN Raised("export_data_into_feature_store", <<"Exported data is empty. Check MongoDB collection.">>, files)
         ELSE IF fault = "feature_store"
         THEN Raised("export_data_into_feature_store", <<"feature store file not writable">>, files)
         ELSE Returned(dataframe, WriteFile(files, FeatureStoreFile, dataframe)))
        @@ my_data

\* Variant: the train partition keeps the rows drawn for the test partition.
split_data_as_train_test_overlapping(files, dataframe, test_rows, fault) ==
    LET n == Cardinality(dataframe.rows)
        train_set == [rows |-> dataframe.rows, columns |-> dataframe.columns]
        test_set == [rows |-> test_rows, columns |-> dataframe.columns]
        files1 == WriteFile(files, TrainingFile, train_set)
        files2 == WriteFile(files1, TestingFile, test_set)
    IN  IF n - NTest(n) = 0
        THEN Raised("split_data_as_train_test", <<"the resulting train set will be empty">>, files)
        ELSE IF fault = "train_write"
        THEN Raised("split_data_as_train_test", <<"training file not writable">>, files)
        ELSE IF fault = "test_write"
        THEN Raised("split_data_as_train_test", <<"testing file not writable">>, files1)
        ELSE Returned(None, files2)

\* test_rows is the sample the seeded shuffle draws; train_test_split raises
\* when the train partition would be empty.
split_data_as_train_test(files, dataframe, test_rows, fault) ==
    LET n == Cardinality(dataframe.rows)
        train_set == [rows |-> dataframe.rows \ test_rows, columns |-> dataframe.columns]
        test_set == [rows |-> test_rows, columns |-> dataframe.columns]
        files1 == WriteFile(files, TrainingFile, train_set)
        files2 == WriteFile(files1, TestingFile, test_set)
    IN  IF n - NTest(n) = 0
        THEN Raised("split_data_as_train_test", <<"the resulting train set will be empty">>, files)
        ELSE IF fault = "train_write"
        THEN Raised("split_data_as_train_test", <<"training file not writable">>, files)
        ELSE IF fault = "test_write"
        THEN Raised("split_data_as_train_test", <<"testing file not writable">>, files1)
        ELSE Returned(None, files2)

initiate_data_ingestion(files, cls, n, dataframe, test_rows, fault) ==
    LET exported == export_data_into_feature_store(files, cls, n, dataframe, fault)
        split == split_data_as_train_test(exported.fs, dataframe, test_rows, fault)
    IN  IF ~exported.ok THEN exported
        ELSE IF ~split.ok THEN split @@ exported
        ELSE Returned([trained_file_path |-> TrainingFile,
                       test_file_path |-> TestingFile], split.fs) @@ exported

\* ------------------------------------------------------------- Validation
ValidationFaults == {"none", "schema", "read", "report"}

validate_number_of_columns(columns) ==
    Cardinality(SchemaColumns) = Cardinality(columns)

\* Variant: only the numerical columns are looked for.
validate_column_existence_numerical_only(columns) ==
    LET missing_numerical == {col \in NumericalColumns : col \notin columns}
    IN  missing_numerical = {}

validate_column_existence(columns) ==
    LET missing_numerical == {col \in NumericalColumns : col \notin columns}
        missing_categorical == {col \in CategoricalColumns : col \notin columns}
    IN  missing_numerical = {} /\ missing_categorical = {}

IncorrectNumberOfColumns(df_type) ==
    IF df_type = "Training"
    THEN "Training dataset has incorrect number of columns."
    ELSE "Testing dataset has incorrect number of columns."
MissingRequiredColumns(df_type) ==
    IF df_type = "Training"
    THEN "Training dataset is missing required columns."
    ELSE "Testing dataset is missing required columns."

\* The entries one pass of the validation loop appends for one dataset.
DatasetErrors(df_type, columns) ==
    (IF ~validate_number_of_columns(columns)
     THEN <<IncorrectNumberOfColumns(df_type)>> ELSE <<>>)
    \o (IF ~validate_column_existence(columns)
        THEN <<MissingRequiredColumns(df_type)>> ELSE <<>>)

\* pd.read_csv of a local file: fails when the file is missing.
Readable(files, path) == IsSome(files[path])

\* Variant: a failed schema check is raised instead of returned.
initiate_data_validation_raises_on_failure(files, ingestion_artifact, fault) ==
    LET train_df == Get(files[ingestion_artifact.trained_file_path])
        test_df == Get(files[ingestion_artifact.test_file_path])
        validation_errors == DatasetErrors("Training", train_df.columns)
                             \o DatasetErrors("Testing", test_df.columns)
        validation_status == Len(validation_errors) = 0
        report == [validation_status |-> validation_status,
                   message |-> <<"No validation errors found.">>]
    IN  IF fault = "schema"
        THEN Raised("__init__", <<"schema file not readable">>, files)
        ELSE IF \/ fault = "read"
                \/ ~Readable(files, ingestion_artifact.trained_file_path)
                \/ ~Readable(files, ingestion_artifact.test_file_path)
        THEN Raised("read_data", <<"partition file not readable">>, files)
        ELSE IF ~validation_status
        THEN Raised("initiate_data_validation", validation_errors, files)
        ELSE IF fault = "report"
        THEN Raised("initiate_data_validation", <<"validation report not writable">>, files)
        ELSE Returned([validation_status |-> validation_status,
                       message |-> <<"No validation errors found.">>,
                       validation_report_file_path |-> ReportFile],
                      WriteFile(files, ReportFile, report))

\* The message is the entries joined by a blank, kept as their sequence.
\* Variant: the report always records a passed check.
initiate_data_validation_reports_pass(files, ingestion_artifact, fault) ==
    LET train_df == Get(files[ingestion_artifact.trained_file_path])
        test_df == Get(files[ingestion_artifact.test_file_path])
        validation_errors == DatasetErrors("Training", train_df.columns)
                             \o DatasetErrors("Testing", test_df.columns)
        validation_status == Len(validation_errors) = 0
        validation_message == IF validation_status
                              THEN <<"No validation errors found.">>
                              ELSE validation_errors
        report == [validation_status |-> TRUE,
                   message |-> validation_message]
    IN  IF fault = "schema"
        THEN Raised("__init__", <<"schema file not readable">>, files)
        ELSE IF \/ fault = "read"
                \/ ~Readable(files, ingestion_artifact.trained_file_path)
                \/ ~Readable(files, ingestion_artifact.test_file_path)
        THEN Raised("read_data", <<"partition file not readable">>, files)
        ELSE IF fault = "report"
        THEN Raised("initiate_data_validation", <<"validation report not writable">>, files)
        ELSE Returned([validation_status |-> validation_status,
                       message |-> validation_message,
                       validation_report_file_path |-> ReportFile],
                      WriteFile(files, ReportFile, report))

initiate_data_validation(files, ingestion_artifact, fault) ==
    LET train_df == Get(files[ingestion_artifact.trained_file_path])
        test_df == Get(files[ingestion_artifact.test_file_path])
        validation_errors == DatasetErrors("Training", train_df.columns)
                             \o DatasetErrors("Testing", test_df.columns)
        validation_status == Len(validation_errors) = 0
        validation_message == IF validation_status
                              THEN <<"No validation errors found.">>
                              ELSE validation_errors
        report == [validation_status |-> validation_status,
                   message |-> validation_message]
    IN  IF fault = "schema"
        THEN Raised("__init__", <<"schema file not readable">>, files)
        ELSE IF \/ fault = "read"
                \/ ~Readable(files, ingestion_artifact.trained_file_path)
                \/ ~Readable(files, ingestion_artifact.test_file_path)
        THEN Raised("read_data", <<"partition file not readable">>, files)
        ELSE IF fault = "report"
        THEN Raised("initiate_data_validation", <<"validation report not writable">>, files)
        ELSE Returned([validation_status |-> validation_status,
                       message |-> validation_message,
                       validation_report_file_path |-> ReportFile],
                      WriteFile(files, ReportFile, report))

\* ------------------------------------------------- Feature preprocessing
\* A feature table is the set of its columns, each a name with a dtype. The
\* raw columns are the identifier columns, the binary categorical Gender, a
\* numerical column and the two categorical columns the renaming is about.
RawFeatureColumns == {"id", "_id", "Gender", "Age", "Vehicle_Age", "Vehicle_Damage"}
RawDtype(name) ==
    IF name \in {"_id", "Gender", "Vehicle_Age", "Vehicle_Damage"} THEN "object" ELSE "int"
RawTable(names) == {[name |-> c, dtype |-> RawDtype(c)] : c \in names}
RawTables == {RawTable(names) : names \in SUBSET RawFeatureColumns}
ColumnNames(df) == {c.name : c \in df}

\* The values schema.yaml can give for drop_columns.
SchemaDropColumns == {"id", "_id"}

\* df['Gender'].map({'Female': 0, 'Male': 1}).astype(int)
MapGender(df) ==
    {IF c.name = "Gender" THEN [name |-> "Gender", dtype |-> "int"] ELSE c : c \in df}

\* df.drop(col, axis=1)
Drop(df, col) == {c \in df : c.name # col}

\* The indicator columns pd.get_dummies(drop_first=True) makes of a column.
Dummies(name) ==
    CASE name = "Gender" -> {"Gender_Male"}
      [] name = "Vehicle_Age" -> {"Vehicle_Age_< 1 Year", "Vehicle_Age_> 2 Years"}
      [] name = "Vehicle_Damage" -> {"Vehicle_Damage_Yes"}
      [] OTHER -> {}

\* pd.get_dummies(df, drop_first=True): the object columns are replaced by
\* their indicator columns, the others are kept.
get_dummies(df) ==
    {c \in df : c.dtype # "object"}
    \cup {[name |-> d, dtype |-> "bool"] :
             d \in UNION {Dummies(c.name) : c \in {x \in df : x.dtype = "object"}}}

Renamed(name) ==
    CASE name = "Vehicle_Age_< 1 Year" -> "Vehicle_Age_lt_1_Year"
      [] name = "Vehicle_Age_> 2 Years" -> "Vehicle_Age_gt_2_Years"
      [] OTHER -> name
Rename(df) == {[c EXCEPT !.name = Renamed(c.name)] : c \in df}

CastColumns == {"Vehicle_Age_lt_1_Year", "Vehicle_Age_gt_2_Years", "Vehicle_Damage_Yes"}
CastToInt(df) ==
    {IF c.name \in CastColumns THEN [c EXCEPT !.dtype = "int"] ELSE c : c \in df}

\* DataTransformation._map_gender_column: df['Gender'] of a table without the
\* column raises KeyError.
_map_gender_column(df) ==
    IF "Gender" \in ColumnNames(df)
    THEN [ok |-> TRUE, message |-> <<>>, df |-> MapGender(df)]
    ELSE [ok |-> FALSE, message |-> <<"KeyError", "Gender">>, df |-> df]

\* DataTransformation._drop_id_column
_drop_id_column(df, drop_col) ==
    IF drop_col \in ColumnNames(df) THEN Drop(df, drop_col) ELSE df

\* DataTransformation._create_dummy_columns
_create_dummy_columns(df) == get_dummies(df)

\* DataTransformation._rename_columns: renames, then casts.
_rename_columns(df) == CastToInt(Rename(df))

\* The custom transformations initiate_data_transformation applies to the
\* features of a partition, in its order.
transformation_features(df, drop_col) ==
    LET mapped == _map_gender_column(df)
    IN  IF ~mapped.ok THEN mapped
        ELSE [mapped EXCEPT
                !.df = _rename_columns(_create_dummy_columns(
                           _drop_id_column(mapped.df, drop_col)))]

\* ModelEvaluation._preprocess_features
_preprocess_features(df) ==
    LET mapped == IF "Gender" \in ColumnNames(df) THEN MapGender(df) ELSE df
        dropped == IF "_id" \in ColumnNames(mapped) THEN Drop(mapped, "_id") ELSE mapped
    IN  [ok |-> TRUE, message |-> <<>>,
         df |-> CastToInt(Rename(get_dummies(dropped)))]

\* --------------------------------------------------------- Transformation
TransformationFaults == {"none", "schema", "read", "transform",
                         "save_object", "save_train", "save_test"}

\* Variant: the validation verdict is not looked at.
initiate_data_transformation_unchecked(files, ingestion_artifact, validation_artifact, fault) ==
    LET train_df == Get(files[ingestion_artifact.trained_file_path])
        test_df == Get(files[ingestion_artifact.test_file_path])
        preprocessor == [fitted_on |-> train_df.rows]
        train_arr == [resampled_from |-> train_df.rows, scaled_by |-> preprocessor]
        test_arr == [resampled_from |-> test_df.rows, scaled_by |-> preprocessor]
        files1 == WriteFile(files, TransformedObjectFile, preprocessor)
        files2 == WriteFile(files1, TransformedTrainFile, train_arr)
        files3 == WriteFile(files2, TransformedTestFile, test_arr)
    IN  IF fault = "schema"
        THEN Raised("__init__", <<"schema file not readable">>, files)
        ELSE IF \/ fault = "read"
                \/ ~Readable(files, ingestion_artifact.trained_file_path)
                \/ ~Readable(files, ingestion_artifact.test_file_path)
        THEN Raised("read_data", <<"partition file not readable">>, files)
        ELSE IF fault = "transform"
        THEN Raised("initiate_data_transformation", <<"feature transformation failed">>, files)
        ELSE IF fault = "save_object"
        THEN Raised("save_object", <<"transformer object not writable">>, files)
        ELSE IF fault = "save_train"
        THEN Raised("save_numpy_array_data", <<"train matrix not writable">>, files1)
        ELSE IF fault = "save_test"
        THEN Raised("save_numpy_array_data", <<"test matrix not writable">>, files2)
        ELSE Returned([transformed_object_file_path |-> TransformedObjectFile,
                       transformed_train_file_path |-> TransformedTrainFile,
                       transformed_test_file_path |-> TransformedTestFile], files3)

\* Variant: the preprocessor is fitted on the rows of both partitions.
initiate_data_transformation_fits_on_all(files, ingestion_artifact, validation_artifact, fault) ==
    LET train_df == Get(files[ingestion_artifact.trained_file_path])
        test_df == Get(files[ingestion_artifact.test_file_path])
        preprocessor == [fitted_on |-> train_df.rows \cup test_df.rows]
        train_arr == [resampled_from |-> train_df.rows, scaled_by |-> preprocessor]
        test_arr == [resampled_from |-> test_df.rows, scaled_by |-> preprocessor]
        files1 == WriteFile(files, TransformedObjectFile, preprocessor)
        files2 == WriteFile(files1, TransformedTrainFile, train_arr)
        files3 == WriteFile(files2, TransformedTestFile, test_arr)
    IN  IF fault = "schema"
        THEN Raised("__init__", <<"schema file not readable">>, files)
        ELSE IF ~validation_artifact.validation_status
        THEN Raised("initiate_data_transformation", validation_artifact.message, files)
        ELSE IF \/ fault = "read"
                \/ ~Readable(files, ingestion_artifact.trained_file_path)
                \/ ~Readable(files, ingestion_artifact.test_file_path)
        THEN Raised("read_data", <<"partition file not readable">>, files)
        ELSE IF fault = "transform"
        THEN Raised("initiate_data_transformation", <<"feature transformation failed">>, files)
        ELSE IF fault = "save_object"
        THEN Raised("save_object", <<"transformer object not writable">>, files)
        ELSE IF fault = "save_train"
        THEN Raised("save_numpy_array_data", <<"train matrix not writable">>, files1)
        ELSE IF fault = "save_test"
        THEN Raised("save_numpy_array_data", <<"test matrix not writable">>, files2)
        ELSE Returned([transformed_object_file_path |-> TransformedObjectFile,
                       transformed_train_file_path |-> TransformedTrainFile,
                       transformed_test_file_path |-> TransformedTestFile], files3)

initiate_data_transformation(files, ingestion_artifact, validation_artifact, fault) ==
    LET train_df == Get(files[ingestion_artifact.trained_file_path])
        test_df == Get(files[ingestion_artifact.test_file_path])
        preprocessor == [fitted_on |-> train_df.rows]
        train_arr == [resampled_from |-> train_df.rows, scaled_by |-> preprocessor]
        test_arr == [resampled_from |-> test_df.rows, scaled_by |-> preprocessor]
        files1 == WriteFile(files, TransformedObjectFile, preprocessor)
        files2 == WriteFile(files1, TransformedTrainFile, train_arr)
        files3 == WriteFile(files2, TransformedTestFile, test_arr)
    IN  IF fault = "schema"
        THEN Raised("__init__", <<"schema file not readable">>, files)
        ELSE IF ~validation_artifact.validation_status
        THEN Raised("initiate_data_transformation", validation_artifact.message, files)
        ELSE IF \/ fault = "read"
                \/ ~Readable(files, ingestion_artifact.trained_file_path)
                \/ ~Readable(files, ingestion_artifact.test_file_path)
        THEN Raised("read_data", <<"partition file not readable">>, files)
        ELSE IF fault = "transform"
        THEN Raised("initiate_data_transformation", <<"feature transformation failed">>, files)
        ELSE IF fault = "save_object"
        THEN Raised("save_object", <<"transformer object not writable">>, files)
        ELSE IF fault = "save_train"
        THEN Raised("save_numpy_array_data", <<"train matrix not writable">>, files1)
        ELSE IF fault = "save_test"
        THEN Raised("save_numpy_array_data", <<"test matrix not writable">>, files2)
        ELSE Returned([transformed_object_file_path |-> TransformedObjectFile,
                       transformed_train_file_path |-> TransformedTrainFile,
                       transformed_test_file_path |-> TransformedTestFile], files3)

\* --------------------------------------------------------------- Training
TrainerFaults == {"none", "load", "fit", "load_object", "save"}

\* x_test, y_test of get_model_object_and_report: the columns of test_arr, the
\* matrix initiate_model_trainer loads from transformed_test_file_path. The
\* trainer's f1_score, precision_score and recall_score are computed on it.
trainer_test_data(files, transformation_artifact) ==
    files[transformation_artifact.transformed_test_file_path]

\* The recomputed train accuracy exists once the arrays are loaded, the
\* classifier is fitted and the preprocessing object is loaded.
TrainAccuracyComputed(files, transformation_artifact, fault) ==
    /\ fault \notin {"load", "fit", "load_object"}
    /\ Readable(files, transformation_artifact.transformed_train_file_path)
    /\ Readable(files, transformation_artifact.transformed_test_file_path)
    /\ Readable(files, transformation_artifact.transformed_object_file_path)

\* Variant: the bundle is saved before the accuracy gate is looked at.
initiate_model_trainer_saves_first(files, transformation_artifact, floor, accuracy, metric, fault) ==
    LET train_arr == Get(files[transformation_artifact.transformed_train_file_path])
        preprocessing_obj == Get(files[transformation_artifact.transformed_object_file_path])
        trained_model == [trained_on |-> train_arr.resampled_from]
        final_model == MyModel(preprocessing_obj, trained_model)
        saved == WriteFile(files, TrainedModelFile, final_model)
    IN  IF \/ fault = "load"
           \/ ~Readable(files, transformation_artifact.transformed_train_file_path)
           \/ ~Readable(files, transformation_artifact.transformed_test_file_path)
        THEN Raised("load_numpy_array_data", <<"File not found">>, files)
        ELSE IF fault = "fit"
        THEN Raised("get_model_object_and_report", <<"classifier fit failed">>, files)
        ELSE IF \/ fault = "load_object"
                \/ ~Readable(files, transformation_artifact.transformed_object_file_path)
        THEN Raised("load_object", <<"File not found">>, files)
        ELSE IF fault = "save"
        THEN Raised("save_object", <<"trained model file not writable">>, files)
        ELSE IF accuracy < floor
        THEN Raised("initiate_model_trainer",
                    <<"CustomException.__init__() missing 1 required positional argument: 'error_detail'">>,
                    saved)
        ELSE Returned([trained_model_file_path |-> TrainedModelFile,
                       metric_artifact |-> metric], saved)

\* accuracy is the train accuracy the fitted classifier reaches, metric the
\* ClassificationMetricArtifact computed on the test matrix.
initiate_model_trainer(files, transformation_artifact, floor, accuracy, metric, fault) ==
    LET train_arr == Get(files[transformation_artifact.transformed_train_file_path])
        preprocessing_obj == Get(files[transformation_artifact.transformed_object_file_path])
        trained_model == [trained_on |-> train_arr.resampled_from]
        final_model == MyModel(preprocessing_obj, trained_model)
    IN  IF \/ fault = "load"
           \/ ~Readable(files, transformation_artifact.transformed_train_file_path)
           \/ ~Readable(files, transformation_artifact.transformed_test_file_path)
        THEN Raised("load_numpy_array_data", <<"File not found">>, files)
        ELSE IF fault = "fit"
        THEN Raised("get_model_object_and_report", <<"classifier fit failed">>, files)
        ELSE IF \/ fault = "load_object"
                \/ ~Readable(files, transformation_artifact.transformed_object_file_path)
        THEN Raised("load_object", <<"File not found">>, files)
        ELSE IF accuracy < floor
        THEN Raised("initiate_model_trainer",
                    <<"CustomException.__init__() missing 1 required positional argument: 'error_detail'">>,
                    files)
        ELSE IF fault = "save"
        THEN Raised("save_object", <<"trained model file not writable">>, files)
        ELSE Returned([trained_model_file_path |-> TrainedModelFile,
                       metric_artifact |-> metric],
                      WriteFile(files, TrainedModelFile, final_model))

\* ------------------------------------------------------------ Model store
\* any(bucket.objects.filter(Prefix=s3_key))
MatchingKeys(store, prefix) ==
    {k \in S3Keys : IsSome(store[k]) /\ IsPrefix(prefix, k)}
s3_key_path_available(store, s3_key) == MatchingKeys(store, s3_key) # {}

\* ProjEstimator.is_model_present: a failed check is logged and answered False.
is_model_present(store, model_path, check_fails) ==
    IF check_fails THEN FALSE ELSE s3_key_path_available(store, model_path)

\* get_file_object gives the object only when exactly one key matches;
\* read_object of a list fails.
Loadable(store, model_path) == Cardinality(MatchingKeys(store, model_path)) = 1

\* Variant: the local file is removed before the upload is attempted.
upload_file_removes_first(files, store, from_filename, to_filename, remove, fails) ==
    LET removed == IF remove /\ Readable(files, from_filename)
                   THEN [files EXCEPT ![from_filename] = None] ELSE files
    IN  IF fails \/ ~Readable(files, from_filename)
        THEN [ok |-> FALSE, fs |-> removed, bucket |-> store]
        ELSE [ok |-> TRUE, fs |-> removed,
              bucket |-> [store EXCEPT ![to_filename] = files[from_filename]]]

\* SimpleStorageService.upload_file
upload_file(files, store, from_filename, to_filename, remove, fails) ==
    IF fails \/ ~Readable(files, from_filename)
    THEN [ok |-> FALSE, fs |-> files, bucket |-> store]
    ELSE [ok |-> TRUE,
          fs |-> IF remove THEN [files EXCEPT ![from_filename] = None] ELSE files,
          bucket |-> [store EXCEPT ![to_filename] = files[from_filename]]]

\* Variant: the local file is deleted once it is uploaded.
save_model_removes_local(files, store, model_path, from_file, fails) ==
    upload_file(files, store, from_file, model_path, TRUE, fails)

\* ProjEstimator.save_model: remove defaults to False.
save_model(files, store, model_path, from_file, fails) ==
    upload_file(files, store, from_file, model_path, FALSE, fails)

\* SimpleStorageService.load_model: the object of the only matching key;
\* read_object of anything else fails.
s3_load_model(store, model_name, fails) ==
    IF fails \/ ~Loadable(store, model_name)
    THEN [ok |-> FALSE, model |-> None]
    ELSE [ok |-> TRUE,
          model |-> store[CHOOSE k \in MatchingKeys(store, model_name) : TRUE]]

\* ProjEstimator.load_model: the store is read only while nothing is cached.
\* cached is self.loaded_model; downloaded tells whether the store gave it.
ProjEstimator_load_model(cached, store, model_path, fails) ==
    IF cached # None
    THEN [ok |-> TRUE, loaded_model |-> cached, downloaded |-> FALSE]
    ELSE LET got == s3_load_model(store, model_path, fails)
         IN  IF got.ok
             THEN [ok |-> TRUE, loaded_model |-> got.model, downloaded |-> TRUE]
             ELSE [ok |-> FALSE, loaded_model |-> cached, downloaded |-> FALSE]

\* ProjEstimator.predict: loads when nothing is cached, then predicts with
\* the cached bundle (used).
ProjEstimator_predict(cached, store, model_path, fails) ==
    LET loaded == IF cached = None
                  THEN ProjEstimator_load_model(cached, store, model_path, fails)
                  ELSE [ok |-> TRUE, loaded_model |-> cached, downloaded |-> FALSE]
    IN  loaded @@ [used |-> IF loaded.ok THEN loaded.loaded_model ELSE None]

\* ProjEstimator.save_model(from_file, remove): uploads under model_path;
\* self.loaded_model is not touched.
ProjEstimator_save_model(cached, files, store, model_path, from_file, remove, fails) ==
    upload_file(files, store, from_file, model_path, remove, fails)
        @@ [loaded_model |-> cached, uploaded |-> files[from_file]]

\* ------------------------------------------------------------- Evaluation
EvaluationFaults == {"none", "read", "load_object", "s3_check", "download"}
                    \cup S3ClientFaults

\* log.error of ProjEstimator.is_model_present
ErrorCheckingModelPresence == "Error checking model presence in S3"

\* Variant: a missing incumbent score counts as the best possible score.
OrZero_default_best(score) == IF IsSome(score) /\ Get(score) # 0 THEN Get(score) ELSE ScoreScale

\* best_model_f1_score or 0
OrZero(score) == IF IsSome(score) /\ Get(score) # 0 THEN Get(score) ELSE 0

\* Variant: a tie is accepted.
Accepts_or_equal(trained_model_f1_score, tmp_best_model_score) ==
    trained_model_f1_score >= tmp_best_model_score

Accepts(trained_model_f1_score, tmp_best_model_score) ==
    trained_model_f1_score > tmp_best_model_score

\* The decision of evaluate_model once both scores are known.
EvaluateModelResponse(trained_model_f1_score, best_model_f1_score) ==
    LET tmp_best_model_score == OrZero(best_model_f1_score)
    IN  [trained_model_f1_score |-> trained_model_f1_score,
         best_model_f1_score |-> best_model_f1_score,
         is_model_accepted |-> Accepts(trained_model_f1_score, tmp_best_model_score),
         difference |-> trained_model_f1_score - tmp_best_model_score]

\* test_df of evaluate_model: the table read from test_file_path, on which
\* the incumbent's f1_score is computed.
evaluation_test_data(files, ingestion_artifact) ==
    files[ingestion_artifact.test_file_path]

\* Variant: the candidate's score is taken from the bundle load_object read
\* instead of from the trainer's metric record.
evaluate_model_rescored(files, store, cls, n, ingestion_artifact, trainer_artifact, incumbent_f1, fault) ==
    LET loaded == files[trainer_artifact.trained_model_file_path]
        trained_model_f1_score ==
            IF IsSome(loaded)
            THEN Cardinality(Get(loaded).trained_model_object.trained_on) % (ScoreScale + 1)
            ELSE 0
        s3 == S3Client_init(cls, n, fault)
        not_built == [S3Client |-> cls, created |-> n, instance |-> None, logged |-> {}]
        built == s3 @@ [logged |-> IF fault = "s3_check"
                                   THEN {ErrorCheckingModelPresence} ELSE {}]
        present == is_model_present(store, EvalModelKey, fault = "s3_check")
        best_model_f1_score == IF present THEN Some(incumbent_f1) ELSE None
    IN  IF fault = "read" \/ ~Readable(files, ingestion_artifact.test_file_path)
        THEN Raised("evaluate_model", <<"test file not readable">>, files) @@ not_built
        ELSE IF \/ fault = "load_object"
                \/ ~Readable(files, trainer_artifact.trained_model_file_path)
        THEN Raised("load_object", <<"File not found">>, files) @@ not_built
        ELSE IF ~s3.ok
        THEN Raised("_initialize_s3_connection", s3.message, files) @@ built
        ELSE IF present /\ (fault = "download" \/ ~Loadable(store, EvalModelKey))
        THEN Raised("predict", <<"Error during prediction">>, files) @@ built
        ELSE Returned(EvaluateModelResponse(trained_model_f1_score, best_model_f1_score),
                      files) @@ built

\* incumbent_f1 is the F1 the deployed bundle reaches on the test file.
\* cls and n are the S3Client class state and the number of connection objects
\* created so far; get_best_model builds a ProjEstimator, and with it an
\* S3Client, once the test file and the candidate bundle are loaded.
evaluate_model(files, store, cls, n, ingestion_artifact, trainer_artifact, incumbent_f1, fault) ==
    LET trained_model_f1_score == trainer_artifact.metric_artifact.f1_score
        s3 == S3Client_init(cls, n, fault)
        not_built == [S3Client |-> cls, created |-> n, instance |-> None, logged |-> {}]
        built == s3 @@ [logged |-> IF fault = "s3_check"
                                   THEN {ErrorCheckingModelPresence} ELSE {}]
        present == is_model_present(store, EvalModelKey, fault = "s3_check")
        best_model_f1_score == IF present THEN Some(incumbent_f1) ELSE None
    IN  IF fault = "read" \/ ~Readable(files, ingestion_artifact.test_file_path)
        THEN Raised("evaluate_model", <<"test file not readable">>, files) @@ not_built
        ELSE IF \/ fault = "load_object"
                \/ ~Readable(files, trainer_artifact.trained_model_file_path)
        THEN Raised("load_object", <<"File not found">>, files) @@ not_built
        ELSE IF ~s3.ok
        THEN Raised("_initialize_s3_connection", s3.message, files) @@ built
        ELSE IF present /\ (fault = "download" \/ ~Loadable(store, EvalModelKey))
        THEN Raised("predict", <<"Error during prediction">>, files) @@ built
        ELSE Returned(EvaluateModelResponse(trained_model_f1_score, best_model_f1_score),
                      files) @@ built

initiate_model_evaluation(files, store, cls, n, ingestion_artifact, trainer_artifact, incumbent_f1, fault) ==
    LET response == evaluate_model(files, store, cls, n, ingestion_artifact,
                                   trainer_artifact, incumbent_f1, fault)
    IN  IF ~response.ok THEN response
        ELSE Returned([is_model_accepted |-> Get(response.artifact).is_model_accepted,
                       s3_model_path |-> EvalModelKey,
                       trained_model_path |-> trainer_artifact.trained_model_file_path,
                       changed_accuracy |-> Get(response.artifact).difference],
                      response.fs) @@ response

\* -------------------------------------------------------------- Promotion
\* cls and n are the S3Client class state and the number of connection objects
\* created so far; ModelPusher.__init__ builds the storage service, and with
\* it an S3Client, before anything is uploaded.
PusherFaults == {"none", "upload"} \cup S3ClientFaults

\* Variant: an object already stored under the key is left as it is.
initiate_model_pusher_keeps_existing(files, store, cls, n, evaluation_artifact, fault) ==
    LET s3 == S3Client_init(cls, n, fault)
        saved == IF IsSome(store[PusherModelKey])
                 THEN [ok |-> TRUE, fs |-> files, bucket |-> store]
                 ELSE save_model(files, store, PusherModelKey,
                                 evaluation_artifact.trained_model_path, fault = "upload")
    IN  (IF ~s3.ok
         THEN Raised("_initialize_s3_connection", s3.message, files) @@ [bucket |-> store]
         ELSE IF ~saved.ok
         THEN Raised("save_model", <<"Error saving model to S3">>, saved.fs) @@ [bucket |-> saved.bucket]
         ELSE Returned([bucket_name |-> BucketName, s3_model_path |-> PusherModelKey],
                       saved.fs) @@ [bucket |-> saved.bucket])
        @@ s3

initiate_model_pusher(files, store, cls, n, evaluation_artifact, fault) ==
    LET s3 == S3Client_init(cls, n, fault)
        saved == save_model(files, store, PusherModelKey,
                            evaluation_artifact.trained_model_path, fault = "upload")
    IN  (IF ~s3.ok
         THEN Raised("_initialize_s3_connection", s3.message, files) @@ [bucket |-> store]
         ELSE IF ~saved.ok
         THEN Raised("save_model", <<"Error saving model to S3">>, saved.fs) @@ [bucket |-> saved.bucket]
         ELSE Returned([bucket_name |-> BucketName, s3_model_path |-> PusherModelKey],
                       saved.fs) @@ [bucket |-> saved.bucket])
        @@ s3

\* ------------------------------------------------- TrainPipeline.run_pipeline
\* The instances built so far, with the one a constructor call returned.
Built(instances, instance) ==
    IF IsSome(instance) THEN instances \cup {Get(instance)} ELSE instances

\* The bookkeeping every start_* call of run_pipeline shares: the call is
\* recorded, the stage's file writes stay, and a raise leaves run_pipeline.
\* Variant: a raising stage's own file writes are undone.
Finish_rolls_back(stage, args, next, result) ==
    /\ calls' = Append(calls, Call(stage, args))
    /\ fs' = IF result.ok THEN result.fs ELSE fs
    /\ pc' = IF result.ok THEN next ELSE "raised"
    /\ error' = IF result.ok THEN None
                ELSE Some(CustomException(stage, result.origin, result.message))

Finish(stage, args, next, result) ==
    /\ calls' = Append(calls, Call(stage, args))
    /\ fs' = result.fs
    /\ pc' = IF result.ok THEN next ELSE "raised"
    /\ error' = IF result.ok THEN None
                ELSE Some(CustomException(stage, result.origin, result.message))

Min(a, b) == IF a <= b THEN a ELSE b
Max(a, b) == IF a <= b THEN b ELSE a

\* The ClassificationMetricArtifacts sklearn can report: F1 is the harmonic
\* mean of precision and recall, so it is 0 when either is 0 and lies
\* between them otherwise.
Metrics ==
    {m \in [f1_score : Scores, precision_score : Scores, recall_score : Scores] :
        IF m.precision_score = 0 \/ m.recall_score = 0
        THEN m.f1_score = 0
        ELSE /\ Min(m.precision_score, m.recall_score) <= m.f1_score
             /\ m.f1_score <= Max(m.precision_score, m.recall_score)}

start_data_ingestion ==
    /\ pc = "ingestion"
    /\ \E fault \in IngestionFaults, n \in 0..MaxRows, columns \in ColumnSets,
          test_rows \in SUBSET (1..MaxRows) :
          LET dataframe == [rows |-> 1..n,
                            columns |-> IF n = 0 THEN {} ELSE columns]
              result == initiate_data_ingestion(fs, MongoDBClient, created, dataframe,
                                                test_rows, fault)
          IN  /\ test_rows \subseteq 1..n
              /\ Cardinality(test_rows) = NTest(n)
              /\ Finish("ingestion", <<>>, "validation", result)
              /\ data_ingestion_artifact' = result.artifact
              /\ MongoDBClient' = result.MongoDBClient
              /\ mongo_instances' = Built(mongo_instances, result.instance)
              /\ created' = result.created
    /\ UNCHANGED <<data_validation_artifact, data_transformation_artifact,
                   model_trainer_artifact, model_evaluation_artifact,
                   model_pusher_artifact, evaluate_model_response, bucket,
                   expected_accuracy, train_accuracy>>
    /\ UNCHANGED <<s3_connection, logged>>
    /\ UNCHANGED loaded_model

\* Variant: the validation stage is run a second time before moving on.
start_data_validation_repeats ==
    /\ pc = "validation"
    /\ \E fault \in ValidationFaults :
          LET result == initiate_data_validation(fs, Get(data_ingestion_artifact), fault)
          IN  /\ Finish("validation", <<Get(data_ingestion_artifact)>>,
                        IF Len(calls) = 1 THEN "validation" ELSE "transformation",
                        result)
              /\ data_validation_artifact' = result.artifact
    /\ UNCHANGED <<data_ingestion_artifact, data_transformation_artifact,
                   model_trainer_artifact, model_evaluation_artifact,
                   model_pusher_artifact, evaluate_model_response, bucket,
                   expected_accuracy, train_accuracy>>
    /\ UNCHANGED <<s3_connection, mongo_connection, created, logged>>
    /\ UNCHANGED loaded_model

\* Variant: a failed verdict ends the run with a normal return.
start_data_validation_returns_on_failure ==
    /\ pc = "validation"
    /\ \E fault \in ValidationFaults :
          LET result == initiate_data_validation(fs, Get(data_ingestion_artifact), fault)
          IN  /\ Finish("validation", <<Get(data_ingestion_artifact)>>,
                        IF result.ok /\ ~Get(result.artifact).validation_status
                        THEN "returned" ELSE "transformation",
                        result)
              /\ data_validation_artifact' = result.artifact
    /\ UNCHANGED <<data_ingestion_artifact, data_transformation_artifact,
                   model_trainer_artifact, model_evaluation_artifact,
                   model_pusher_artifact, evaluate_model_response, bucket,
                   expected_accuracy, train_accuracy>>
    /\ UNCHANGED <<s3_connection, mongo_connection, created, logged>>
    /\ UNCHANGED loaded_model

start_data_validation ==
    /\ pc = "validation"
    /\ \E fault \in ValidationFaults :
          LET result == initiate_data_validation(fs, Get(data_ingestion_artifact), fault)
          IN  /\ Finish("validation", <<Get(data_ingestion_artifact)>>,
                        "transformation", result)
              /\ data_validation_artifact' = result.artifact
    /\ UNCHANGED <<data_ingestion_artifact, data_transformation_artifact,
                   model_trainer_artifact, model_evaluation_artifact,
                   model_pusher_artifact, evaluate_model_response, bucket,
                   expected_accuracy, train_accuracy>>
    /\ UNCHANGED <<s3_connection, mongo_connection, created, logged>>
    /\ UNCHANGED loaded_model

\* Variant: after a failed verdict the run ends quietly instead of invoking
\* the transformation stage.
start_data_transformation_stops_quietly ==
    /\ pc = "transformation"
    /\ IF ~Get(data_validation_artifact).validation_status
       THEN /\ pc' = "returned"
            /\ UNCHANGED <<calls, fs, error, data_transformation_artifact>>
       ELSE \E fault \in TransformationFaults :
              LET result == initiate_data_transformation(fs, Get(data_ingestion_artifact),
                                                         Get(data_validation_artifact), fault)
              IN  /\ Finish("transformation",
                            <<Get(data_ingestion_artifact), Get(data_validation_artifact)>>,
                            "training", result)
                  /\ data_transformation_artifact' = result.artifact
    /\ UNCHANGED <<data_ingestion_artifact, data_validation_artifact,
                   model_trainer_artifact, model_evaluation_artifact,
                   model_pusher_artifact, evaluate_model_response, bucket,
                   expected_accuracy, train_accuracy>>
    /\ UNCHANGED <<s3_connection, mongo_connection, created, logged>>
    /\ UNCHANGED loaded_model

start_data_transformation ==
    /\ pc = "transformation"
    /\ \E fault \in TransformationFaults :
          LET result == initiate_data_transformation(fs, Get(data_ingestion_artifact),
                                                     Get(data_validation_artifact), fault)
          IN  /\ Finish("transformation",
                        <<Get(data_ingestion_artifact), Get(data_validation_artifact)>>,
                        "training", result)
              /\ data_transformation_artifact' = result.artifact
    /\ UNCHANGED <<data_ingestion_artifact, data_validation_artifact,
                   model_trainer_artifact, model_evaluation_artifact,
                   model_pusher_artifact, evaluate_model_response, bucket,
                   expected_accuracy, train_accuracy>>
    /\ UNCHANGED <<s3_connection, mongo_connection, created, logged>>
    /\ UNCHANGED loaded_model

\* Variant: a failed training stage is caught and tried once more.
start_model_trainer_retries ==
    /\ pc = "training"
    /\ \E fault \in TrainerFaults, accuracy \in Scores, metric \in Metrics :
          LET result == initiate_model_trainer(fs, Get(data_transformation_artifact),
                                               expected_accuracy, accuracy, metric, fault)
              retry == ~result.ok /\ Len(calls) = 3
          IN  /\ calls' = Append(calls, Call("training", <<Get(data_transformation_artifact)>>))
              /\ fs' = result.fs
              /\ pc' = IF result.ok THEN "evaluation"
                       ELSE IF retry THEN "training" ELSE "raised"
              /\ error' = IF result.ok \/ retry THEN None
                          ELSE Some(CustomException("training", result.origin, result.message))
              /\ model_trainer_artifact' = result.artifact
              /\ train_accuracy' =
                    IF TrainAccuracyComputed(fs, Get(data_transformation_artifact), fault)
                    THEN Some(accuracy) ELSE None
    /\ UNCHANGED <<data_ingestion_artifact, data_validation_artifact,
                   data_transformation_artifact, model_evaluation_artifact,
                   model_pusher_artifact, evaluate_model_response, bucket,
                   expected_accuracy>>
    /\ UNCHANGED <<s3_connection, mongo_connection, created, logged>>
    /\ UNCHANGED loaded_model

start_model_trainer ==
    /\ pc = "training"
    /\ \E fault \in TrainerFaults, accuracy \in Scores, metric \in Metrics :
          LET result == initiate_model_trainer(fs, Get(data_transformation_artifact),
                                               expected_accuracy, accuracy, metric, fault)
          IN  /\ Finish("training", <<Get(data_transformation_artifact)>>,
                        "evaluation", result)
              /\ model_trainer_artifact' = result.artifact
              /\ train_accuracy' =
                    IF TrainAccuracyComputed(fs, Get(data_transformation_artifact), fault)
                    THEN Some(accuracy) ELSE None
    /\ UNCHANGED <<data_ingestion_artifact, data_validation_artifact,
                   data_transformation_artifact, model_evaluation_artifact,
                   model_pusher_artifact, evaluate_model_response, bucket,
                   expected_accuracy>>
    /\ UNCHANGED <<s3_connection, mongo_connection, created, logged>>
    /\ UNCHANGED loaded_model

\* Variant: evaluation writes the score it compared into the trainer's artifact.
start_model_evaluation_updates_trainer_artifact ==
    /\ pc = "evaluation"
    /\ \E fault \in EvaluationFaults, incumbent_f1 \in Scores :
          LET response == evaluate_model(fs, bucket, S3Client, created,
                                         Get(data_ingestion_artifact),
                                         Get(model_trainer_artifact), incumbent_f1, fault)
              result == initiate_model_evaluation(fs, bucket, S3Client, created,
                                                  Get(data_ingestion_artifact),
                                                  Get(model_trainer_artifact),
                                                  incumbent_f1, fault)
          IN  /\ Finish("evaluation",
                        <<Get(data_ingestion_artifact), Get(model_trainer_artifact)>>,
                        "gate", result)
              /\ evaluate_model_response' = response.artifact
              /\ model_evaluation_artifact' = result.artifact
              /\ S3Client' = result.S3Client
              /\ s3_instances' = Built(s3_instances, result.instance)
              /\ created' = result.created
              /\ logged' = logged \cup result.logged
              /\ model_trainer_artifact' =
                    Some([Get(model_trainer_artifact) EXCEPT
                            !.metric_artifact.f1_score = incumbent_f1])
    /\ UNCHANGED <<data_ingestion_artifact, data_validation_artifact,
                   data_transformation_artifact,
                   model_pusher_artifact, bucket, expected_accuracy, train_accuracy>>
    /\ UNCHANGED <<mongo_connection>>
    /\ UNCHANGED loaded_model

\* Variant: evaluation itself stores a candidate it accepts.
start_model_evaluation_stores_accepted ==
    /\ pc = "evaluation"
    /\ \E fault \in EvaluationFaults, incumbent_f1 \in Scores :
          LET response == evaluate_model(fs, bucket, S3Client, created,
                                         Get(data_ingestion_artifact),
                                         Get(model_trainer_artifact), incumbent_f1, fault)
              result == initiate_model_evaluation(fs, bucket, S3Client, created,
                                                  Get(data_ingestion_artifact),
                                                  Get(model_trainer_artifact),
                                                  incumbent_f1, fault)
          IN  /\ Finish("evaluation",
                        <<Get(data_ingestion_artifact), Get(model_trainer_artifact)>>,
                        "gate", result)
              /\ evaluate_model_response' = response.artifact
              /\ model_evaluation_artifact' = result.artifact
              /\ S3Client' = result.S3Client
              /\ s3_instances' = Built(s3_instances, result.instance)
              /\ created' = result.created
              /\ logged' = logged \cup result.logged
              /\ bucket' = IF result.ok /\ Get(result.artifact).is_model_accepted
                           THEN [bucket EXCEPT ![EvalModelKey] = fs[TrainedModelFile]]
                           ELSE bucket
    /\ UNCHANGED <<data_ingestion_artifact, data_validation_artifact,
                   data_transformation_artifact, model_trainer_artifact,
                   model_pusher_artifact, expected_accuracy, train_accuracy>>
    /\ UNCHANGED <<mongo_connection>>
    /\ UNCHANGED loaded_model

start_model_evaluation ==
    /\ pc = "evaluation"
    /\ \E fault \in EvaluationFaults, incumbent_f1 \in Scores :
          LET response == evaluate_model(fs, bucket, S3Client, created,
                                         Get(data_ingestion_artifact),
                                         Get(model_trainer_artifact), incumbent_f1, fault)
              result == initiate_model_evaluation(fs, bucket, S3Client, created,
                                                  Get(data_ingestion_artifact),
                                                  Get(model_trainer_artifact),
                                                  incumbent_f1, fault)
          IN  /\ Finish("evaluation",
                        <<Get(data_ingestion_artifact), Get(model_trainer_artifact)>>,
                        "gate", result)
              /\ evaluate_model_response' = response.artifact
              /\ model_evaluation_artifact' = result.artifact
              /\ S3Client' = result.S3Client
              /\ s3_instances' = Built(s3_instances, result.instance)
              /\ created' = result.created
              /\ logged' = logged \cup result.logged
    /\ UNCHANGED <<data_ingestion_artifact, data_validation_artifact,
                   data_transformation_artifact, model_trainer_artifact,
                   model_pusher_artifact, bucket, expected_accuracy, train_accuracy>>
    /\ UNCHANGED <<mongo_connection>>
    /\ UNCHANGED loaded_model

\* if not model_evaluation_artifact.is_model_accepted: return None
return_not_accepted ==
    /\ pc = "gate"
    /\ ~Get(model_evaluation_artifact).is_model_accepted
    /\ pc' = "returned"
    /\ UNCHANGED <<calls, artifacts, evaluate_model_response, fs, bucket,
                   expected_accuracy, train_accuracy, error>>
    /\ UNCHANGED <<s3_connection, mongo_connection, created, logged>>
    /\ UNCHANGED loaded_model

\* Variant: promotion runs whatever the evaluation decided.
start_model_pusher_ungated ==
    /\ pc = "gate"
    /\ \E fault \in PusherFaults :
          LET result == initiate_model_pusher(fs, bucket, S3Client, created,
                                              Get(model_evaluation_artifact), fault)
          IN  /\ Finish("promotion", <<Get(model_evaluation_artifact)>>,
                        "returned", result)
              /\ bucket' = result.bucket
              /\ model_pusher_artifact' = result.artifact
              /\ S3Client' = result.S3Client
              /\ s3_instances' = Built(s3_instances, result.instance)
              /\ created' = result.created
    /\ UNCHANGED <<data_ingestion_artifact, data_validation_artifact,
                   data_transformation_artifact, model_trainer_artifact,
                   model_evaluation_artifact, evaluate_model_response,
                   expected_accuracy, train_accuracy>>
    /\ UNCHANGED <<mongo_connection, logged>>
    /\ UNCHANGED loaded_model

start_model_pusher ==
    /\ pc = "gate"
    /\ Get(model_evaluation_artifact).is_model_accepted
    /\ \E fault \in PusherFaults :
          LET result == initiate_model_pusher(fs, bucket, S3Client, created,
                                              Get(model_evaluation_artifact), fault)
          IN  /\ Finish("promotion", <<Get(model_evaluation_artifact)>>,
                        "returned", result)
              /\ bucket' = result.bucket
              /\ model_pusher_artifact' = result.artifact
              /\ S3Client' = result.S3Client
              /\ s3_instances' = Built(s3_instances, result.instance)
              /\ created' = result.created
    /\ UNCHANGED <<data_ingestion_artifact, data_validation_artifact,
                   data_transformation_artifact, model_trainer_artifact,
                   model_evaluation_artifact, evaluate_model_response,
                   expected_accuracy, train_accuracy>>
    /\ UNCHANGED <<mongo_connection, logged>>
    /\ UNCHANGED loaded_model

Next ==
    \/ start_data_ingestion
    \/ start_data_validation
    \/ start_data_transformation
    \/ start_model_trainer
    \/ start_model_evaluation
    \/ return_not_accepted
    \/ start_model_pusher

Spec == Init /\ [][Next]_vars

\* run_pipeline is one sequential call: every step is taken once enabled.
FairSpec == Spec /\ WF_vars(Next)

\* -------------------------------------- the validation component on its own
\* A DataValidation built on an ingestion artifact whose two partition files
\* hold any (non-empty) column sets, followed by the transformation stage.
InitValidation ==
    /\ pc = "validation"
    /\ calls = <<Call("ingestion", <<>>)>>
    /\ data_ingestion_artifact = Some([trained_file_path |-> TrainingFile,
                                       test_file_path |-> TestingFile])
    /\ data_validation_artifact = None
    /\ data_transformation_artifact = None
    /\ model_trainer_artifact = None
    /\ model_evaluation_artifact = None
    /\ model_pusher_artifact = None
    /\ evaluate_model_response = None
    /\ \E train_columns \in ColumnSets \ {{}}, test_columns \in ColumnSets \ {{}} :
          fs = [p \in Paths |->
                  IF p = TrainingFile
                  THEN Some([rows |-> {2}, columns |-> train_columns])
                  ELSE IF p = TestingFile
                  THEN Some([rows |-> {1}, columns |-> test_columns])
                  ELSE None]
    /\ bucket = [k \in S3Keys |-> None]
    /\ expected_accuracy = 0
    /\ train_accuracy = None
    /\ error = None
    /\ S3Client = NoS3Client
    /\ MongoDBClient = [client |-> Some(1)]
    /\ s3_instances = {}
    /\ mongo_instances = {[client |-> Some(1)]}
    /\ created = 1
    /\ logged = {}
    /\ loaded_model = None

NextValidation ==
    \/ start_data_validation
    \/ start_data_transformation

SpecValidation == InitValidation /\ [][NextValidation]_vars

\* ------------------------------------------- run_pipeline after ingestion
\* The rest of a run whose ingestion returned partition files with any
\* (non-empty) column sets; run_pipeline is one sequential call, so every
\* step is taken once enabled.
NextFromValidation ==
    \/ start_data_validation
    \/ start_data_transformation
    \/ start_model_trainer
    \/ start_model_evaluation
    \/ return_not_accepted
    \/ start_model_pusher

FairSpecFromValidation ==
    InitValidation /\ [][NextFromValidation]_vars /\ WF_vars(NextFromValidation)

\* -------------------------------------- the promotion component on its own
\* A ModelPusher built on an accepted evaluation artifact whose bundle file
\* exists, over any model store; initiate_model_pusher is run, and run again
\* after it returned.
InitPusher ==
    /\ pc = "gate"
    /\ calls = <<>>
    /\ data_ingestion_artifact = None
    /\ data_validation_artifact = None
    /\ data_transformation_artifact = None
    /\ model_trainer_artifact = None
    /\ \E difference \in 1..ScoreScale :
          model_evaluation_artifact =
              Some([is_model_accepted |-> TRUE,
                    s3_model_path |-> EvalModelKey,
                    trained_model_path |-> TrainedModelFile,
                    changed_accuracy |-> difference])
    /\ model_pusher_artifact = None
    /\ evaluate_model_response = None
    /\ \E rows \in (SUBSET (1..MaxRows)) \ {{}} :
          fs = [p \in Paths |->
                  IF p = TrainedModelFile
                  THEN Some(MyModel([fitted_on |-> rows], [trained_on |-> rows]))
                  ELSE None]
    /\ bucket \in [S3Keys -> {None, Some(IncumbentBundle)}]
    /\ expected_accuracy = 0
    /\ train_accuracy = None
    /\ error = None
    /\ S3Client = NoS3Client
    /\ MongoDBClient = NoMongoDBClient
    /\ s3_instances = {}
    /\ mongo_instances = {}
    /\ created = 0
    /\ logged = {}
    /\ loaded_model = None

\* initiate_model_pusher called once more with the same evaluation artifact.
initiate_model_pusher_again ==
    /\ pc = "returned"
    /\ IsSome(model_pusher_artifact)
    /\ Len(calls) < MaxPushes
    /\ \E fault \in PusherFaults :
          LET result == initiate_model_pusher(fs, bucket, S3Client, created,
                                              Get(model_evaluation_artifact), fault)
          IN  /\ Finish("promotion", <<Get(model_evaluation_artifact)>>,
                        "returned", result)
              /\ bucket' = result.bucket
              /\ model_pusher_artifact' = result.artifact
              /\ S3Client' = result.S3Client
              /\ s3_instances' = Built(s3_instances, result.instance)
              /\ created' = result.created
    /\ UNCHANGED <<data_ingestion_artifact, data_validation_artifact,
                   data_transformation_artifact, model_trainer_artifact,
                   model_evaluation_artifact, evaluate_model_response,
                   expected_accuracy, train_accuracy>>
    /\ UNCHANGED <<mongo_connection, logged>>
    /\ UNCHANGED loaded_model

NextPusher ==
    \/ start_model_pusher
    \/ initiate_model_pusher_again

SpecPusher == InitPusher /\ [][NextPusher]_vars

\* ------------------------------------ the connection classes on their own
\* One process constructing S3Client and MongoDBClient instances in any
\* order, each construction succeeding or failing.
InitConnection ==
    /\ pc = "ingestion"
    /\ calls = <<>>
    /\ data_ingestion_artifact = None
    /\ data_validation_artifact = None
    /\ data_transformation_artifact = None
    /\ model_trainer_artifact = None
    /\ model_evaluation_artifact = None
    /\ model_pusher_artifact = None
    /\ evaluate_model_response = None
    /\ fs = [p \in Paths |-> None]
    /\ bucket = [k \in S3Keys |-> None]
    /\ expected_accuracy = 0
    /\ train_accuracy = None
    /\ error = None
    /\ S3Client = NoS3Client
    /\ MongoDBClient = NoMongoDBClient
    /\ s3_instances = {}
    /\ mongo_instances = {}
    /\ created = 0
    /\ logged = {}
    /\ loaded_model = None

pipeline == <<pc, calls, artifacts, evaluate_model_response, fs, bucket,
              expected_accuracy, train_accuracy, logged>>

\* S3Client()
new_S3Client ==
    /\ \E fault \in S3ClientFaults \cup {"none"} :
          LET s3 == S3Client_init(S3Client, created, fault)
          IN  /\ s3.created <= MaxConnections
              /\ S3Client' = s3.S3Client
              /\ s3_instances' = Built(s3_instances, s3.instance)
              /\ created' = s3.created
              /\ error' = IF s3.ok THEN None
                          ELSE Some(CustomException("S3Client", "_initialize_s3_connection",
                                                    s3.message))
    /\ UNCHANGED <<pipeline, mongo_connection>>
    /\ UNCHANGED loaded_model

\* MongoDBClient()
new_MongoDBClient ==
    /\ \E fault \in MongoDBClientFaults \cup {"none"} :
          LET mongo == MongoDBClient_init(MongoDBClient, created, fault)
          IN  /\ mongo.created <= MaxConnections
              /\ MongoDBClient' = mongo.MongoDBClient
              /\ mongo_instances' = Built(mongo_instances, mongo.instance)
              /\ created' = mongo.created
              /\ error' = IF mongo.ok THEN None
                          ELSE Some(CustomException("MongoDBClient", "MongoDBClient",
                                                    mongo.message))
    /\ UNCHANGED <<pipeline, s3_connection>>
    /\ UNCHANGED loaded_model

NextConnection ==
    \/ new_S3Client
    \/ new_MongoDBClient

SpecConnection == InitConnection /\ [][NextConnection]_vars

\* ------------------------------------------- the two preprocessing paths
\* One raw feature table, given to the custom transformations of
\* DataTransformation and to ModelEvaluation._preprocess_features.
InitPreprocess ==
    /\ pc = "preprocess"
    /\ calls = <<>>
    /\ data_ingestion_artifact = None
    /\ data_validation_artifact = None
    /\ data_transformation_artifact = None
    /\ model_trainer_artifact = None
    /\ model_evaluation_artifact = None
    /\ model_pusher_artifact = None
    /\ evaluate_model_response = None
    /\ \E df \in RawTables :
          fs = [p \in Paths |-> IF p = TestingFile THEN Some(df) ELSE None]
    /\ bucket = [k \in S3Keys |-> None]
    /\ expected_accuracy = 0
    /\ train_accuracy = None
    /\ error = None
    /\ S3Client = NoS3Client
    /\ MongoDBClient = NoMongoDBClient
    /\ s3_instances = {}
    /\ mongo_instances = {}
    /\ created = 0
    /\ logged = {}
    /\ loaded_model = None

\* A call of one of the two paths, with what it gave.
Applied(stage, args, result) == Call(stage, args) @@ [result |-> result]

apply_transformation_features ==
    /\ \A i \in 1..Len(calls) : calls[i].stage # "transformation"
    /\ \E drop_col \in SchemaDropColumns :
          calls' = Append(calls,
                          Applied("transformation", <<Get(fs[TestingFile]), drop_col>>,
                                  transformation_features(Get(fs[TestingFile]), drop_col)))
    /\ UNCHANGED <<pc, artifacts, evaluate_model_response, fs, bucket,
                   expected_accuracy, train_accuracy, error, logged>>
    /\ UNCHANGED <<s3_connection, mongo_connection, created>>
    /\ UNCHANGED loaded_model

apply_preprocess_features ==
    /\ \A i \in 1..Len(calls) : calls[i].stage # "evaluation"
    /\ calls' = Append(calls,
                       Applied("evaluation", <<Get(fs[TestingFile])>>,
                               _preprocess_features(Get(fs[TestingFile]))))
    /\ UNCHANGED <<pc, artifacts, evaluate_model_response, fs, bucket,
                   expected_accuracy, train_accuracy, error, logged>>
    /\ UNCHANGED <<s3_connection, mongo_connection, created>>
    /\ UNCHANGED loaded_model

NextPreprocess ==
    \/ apply_transformation_features
    \/ apply_preprocess_features

SpecPreprocess == InitPreprocess /\ [][NextPreprocess]_vars

\* ------------------------------------------------------ one ProjEstimator
\* ProjEstimator(bucket_name, model_path) with the pusher's key, a bundle on
\* disk and a bucket that may hold earlier bundles; then any calls of
\* load_model, predict and save_model.
InitEstimator ==
    /\ pc = "estimator"
    /\ calls = <<>>
    /\ data_ingestion_artifact = None
    /\ data_validation_artifact = None
    /\ data_transformation_artifact = None
    /\ model_trainer_artifact = None
    /\ model_evaluation_artifact = None
    /\ model_pusher_artifact = None
    /\ evaluate_model_response = None
    /\ fs = [p \in Paths |->
               IF p = TrainedModelFile
               THEN Some(MyModel([fitted_on |-> {1}], [trained_on |-> {1}]))
               ELSE None]
    /\ bucket \in [S3Keys -> {None, Some(IncumbentBundle)}]
    /\ expected_accuracy = 0
    /\ train_accuracy = None
    /\ error = None
    /\ S3Client = NoS3Client
    /\ MongoDBClient = NoMongoDBClient
    /\ s3_instances = {}
    /\ mongo_instances = {}
    /\ created = 0
    /\ logged = {}
    /\ loaded_model = None

estimator_frame == <<pc, artifacts, evaluate_model_response, expected_accuracy,
                     train_accuracy, logged, s3_connection, mongo_connection, created>>

call_load_model ==
    /\ Len(calls) < MaxCalls
    /\ \E fails \in BOOLEAN :
          LET result == ProjEstimator_load_model(loaded_model, bucket, PusherModelKey, fails)
          IN  /\ calls' = Append(calls, Applied("load_model", <<>>, result))
              /\ loaded_model' = result.loaded_model
              /\ error' = IF result.ok THEN None
                          ELSE Some(CustomException("load_model", "load_model",
                                                    <<"Error loading model">>))
    /\ UNCHANGED <<fs, bucket, estimator_frame>>

call_predict ==
    /\ Len(calls) < MaxCalls
    /\ \E fails \in BOOLEAN :
          LET result == ProjEstimator_predict(loaded_model, bucket, PusherModelKey, fails)
          IN  /\ calls' = Append(calls, Applied("predict", <<>>, result))
              /\ loaded_model' = result.loaded_model
              /\ error' = IF result.ok THEN None
                          ELSE Some(CustomException("predict", "predict",
                                                    <<"Error during prediction">>))
    /\ UNCHANGED <<fs, bucket, estimator_frame>>

call_save_model ==
    /\ Len(calls) < MaxCalls
    /\ \E remove \in BOOLEAN, fails \in BOOLEAN :
          LET result == ProjEstimator_save_model(loaded_model, fs, bucket, PusherModelKey,
                                                 TrainedModelFile, remove, fails)
          IN  /\ calls' = Append(calls, Applied("save_model", <<TrainedModelFile, remove>>,
                                                result))
              /\ fs' = result.fs
              /\ bucket' = result.bucket
              /\ loaded_model' = result.loaded_model
              /\ error' = IF result.ok THEN None
                          ELSE Some(CustomException("save_model", "save_model",
                                                    <<"Error saving model to S3">>))
    /\ UNCHANGED estimator_frame

NextEstimator ==
    \/ call_load_model
    \/ call_predict
    \/ call_save_model

SpecEstimator == InitEstimator /\ [][NextEstimator]_vars

\* ================================================================ properties
StageOrder == <<"ingestion", "validation", "transformation", "training",
                "evaluation", "promotion">>
Invoked(stage) == \E i \in 1..Len(calls) : calls[i].stage = stage
Terminated == pc \in {"returned", "raised"}

\* The artifact run_pipeline holds for a stage (None until the stage returned).
ArtifactOf(stage) ==
    CASE stage = "ingestion" -> data_ingestion_artifact
      [] stage = "validation" -> data_validation_artifact
      [] stage = "transformation" -> data_transformation_artifact
      [] stage = "training" -> model_trainer_artifact
      [] stage = "evaluation" -> model_evaluation_artifact
      [] stage = "promotion" -> model_pusher_artifact

\* The artifacts each stage is to be given.
InputsOf(stage) ==
    CASE stage = "ingestion" -> <<>>
      [] stage = "validation" -> <<data_ingestion_artifact>>
      [] stage = "transformation" -> <<data_ingestion_artifact, data_validation_artifact>>
      [] stage = "training" -> <<data_transformation_artifact>>
      [] stage = "evaluation" -> <<data_ingestion_artifact, model_trainer_artifact>>
      [] stage = "promotion" -> <<model_evaluation_artifact>>

\* C1: the stages of a run are invoked in the order ingestion, validation,
\* transformation, training, evaluation, promotion; the i-th invocation
\* happens only when every earlier stage has returned its artifact, and its
\* arguments are exactly the artifacts those stages returned.
C1_StagesInOrderWithArtifacts ==
    /\ Len(calls) <= Len(StageOrder)
    /\ \A i \in 1..Len(calls) :
          /\ calls[i].stage = StageOrder[i]
          /\ \A j \in 1..(i - 1) : IsSome(ArtifactOf(StageOrder[j]))
          /\ Len(calls[i].args) = Len(InputsOf(StageOrder[i]))
          /\ \A k \in 1..Len(calls[i].args) :
                Some(calls[i].args[k]) = InputsOf(StageOrder[i])[k]

C1_Witness ==
    /\ pc = "returned"
    /\ Len(calls) = 6
    /\ IsSome(model_pusher_artifact)

\* C2: promotion is invoked if and only if evaluation returned an accepted
\* artifact; a rejected candidate makes the run return normally, without an
\* error, without touching the model store and without a pusher artifact.
C2_PromotionIffAccepted ==
    /\ [](/\ Invoked("promotion") =>
                /\ IsSome(model_evaluation_artifact)
                /\ Get(model_evaluation_artifact).is_model_accepted
          /\ (Terminated /\ IsSome(model_evaluation_artifact)) =>
                (Invoked("promotion") <=> Get(model_evaluation_artifact).is_model_accepted)
          /\ (Terminated /\ IsSome(model_evaluation_artifact)
                /\ ~Get(model_evaluation_artifact).is_model_accepted) =>
                /\ pc = "returned"
                /\ error = None
                /\ model_pusher_artifact = None)
    /\ [][(pc = "gate" /\ ~Get(model_evaluation_artifact).is_model_accepted) =>
             /\ bucket' = bucket
             /\ calls' = calls
             /\ pc' = "returned"]_vars

C2_Witness ==
    /\ pc = "returned"
    /\ IsSome(model_evaluation_artifact)
    /\ ~Get(model_evaluation_artifact).is_model_accepted
    /\ ~Invoked("promotion")

\* C3: when a stage raises, run_pipeline raises to its caller with that
\* stage's error, the raising stage is the last one invoked, nothing runs
\* afterwards, and no stage is invoked twice.
C3_RaiseAbortsRun ==
    /\ [](/\ pc = "raised" <=> IsSome(error)
          /\ \A i \in 1..Len(calls) :
                ArtifactOf(calls[i].stage) = None =>
                   /\ i = Len(calls)
                   /\ pc = "raised"
                   /\ IsSome(error)
                   /\ Get(error).stage = calls[i].stage
          /\ \A i, j \in 1..Len(calls) :
                calls[i].stage = calls[j].stage => i = j)
    /\ [][pc # "raised"]_vars

C3_Witness ==
    /\ pc = "raised"
    /\ Len(calls) = 4
    /\ Get(error).stage = "training"
    /\ model_trainer_artifact = None

\* The three ways a run ends.
EndsRaised ==
    /\ pc = "raised"
    /\ IsSome(error)
    /\ Get(error).stage = calls[Len(calls)].stage
    /\ ArtifactOf(Get(error).stage) = None
EndsPromoted ==
    /\ pc = "returned"
    /\ error = None
    /\ IsSome(model_pusher_artifact)
    /\ bucket[PusherModelKey] = fs[TrainedModelFile]
    /\ IsSome(fs[TrainedModelFile])
EndsNotPromoted ==
    /\ pc = "returned"
    /\ error = None
    /\ model_pusher_artifact = None
    /\ ~Invoked("promotion")
    /\ IsSome(model_evaluation_artifact)
    /\ ~Get(model_evaluation_artifact).is_model_accepted

\* C4: every run ends, and ends in exactly one of: an exception from the
\* first failing stage, a return after promotion uploaded the bundle, a
\* return without promotion; the last only after evaluation returned
\* accepted = false.
C4_ThreeOutcomes ==
    /\ <>Terminated
    /\ [](Terminated =>
             /\ EndsRaised \/ EndsPromoted \/ EndsNotPromoted
             /\ ~(EndsRaised /\ EndsPromoted)
             /\ ~(EndsRaised /\ EndsNotPromoted)
             /\ ~(EndsPromoted /\ EndsNotPromoted))

C4_Witness ==
    /\ EndsNotPromoted
    /\ Len(calls) = 5

\* C5: the decision of evaluate_model: the candidate score is the trainer's
\* F1; without an incumbent score the candidate is accepted iff its F1 is
\* above 0 and the difference is its F1; with an incumbent score b it is
\* accepted iff its F1 is strictly above b and the difference is F1 - b; in
\* both cases accepted holds iff the difference is positive.
C5_EvaluationDecision ==
    IsSome(evaluate_model_response) =>
        LET response == Get(evaluate_model_response)
            c == response.trained_model_f1_score
            b == response.best_model_f1_score
        IN  /\ c = Get(model_trainer_artifact).metric_artifact.f1_score
            /\ b = None =>
                  /\ response.is_model_accepted <=> c > 0
                  /\ response.difference = c
            /\ IsSome(b) =>
                  /\ s3_key_path_available(bucket, EvalModelKey)
                  /\ response.is_model_accepted <=> c > Get(b)
                  /\ response.difference = c - Get(b)
            /\ response.is_model_accepted <=> response.difference > 0
            /\ Get(model_evaluation_artifact).is_model_accepted = response.is_model_accepted
            /\ Get(model_evaluation_artifact).changed_accuracy = response.difference

C5_Witness ==
    /\ IsSome(evaluate_model_response)
    /\ IsSome(Get(evaluate_model_response).best_model_f1_score)
    /\ Get(Get(evaluate_model_response).best_model_f1_score)
          = Get(evaluate_model_response).trained_model_f1_score
    /\ Get(evaluate_model_response).trained_model_f1_score > 0
    /\ ~Get(evaluate_model_response).is_model_accepted

NoIncumbentInStore == ~s3_key_path_available(bucket, EvalModelKey)
CandidateF1 == Get(model_trainer_artifact).metric_artifact.f1_score

\* C6 as stated: with no incumbent bundle in the model store, evaluation
\* accepts every candidate of a training stage that passed its floor.
C6_AlwaysAcceptedWithoutIncumbent ==
    (pc = "gate" /\ NoIncumbentInStore) =>
        Get(model_evaluation_artifact).is_model_accepted

\* C6 amended: with no incumbent bundle in the model store, evaluation
\* accepts the candidate of a training stage that passed its floor iff the
\* F1 the trainer reported is above 0, and the run then goes on to
\* promotion; a candidate whose F1 is 0 is rejected and the run returns
\* without promotion.
C6_AcceptedWithoutIncumbentIffPositiveF1 ==
    /\ []((pc = "gate" /\ NoIncumbentInStore) =>
             /\ IsSome(train_accuracy)
             /\ Get(train_accuracy) >= expected_accuracy
             /\ Get(model_evaluation_artifact).is_model_accepted <=> CandidateF1 > 0)
    /\ [][(pc = "gate" /\ NoIncumbentInStore /\ CandidateF1 > 0) =>
             calls' = Append(calls, Call("promotion", <<Get(model_evaluation_artifact)>>))]_vars
    /\ [][(pc = "gate" /\ NoIncumbentInStore /\ CandidateF1 = 0) =>
             (pc' = "returned" /\ calls' = calls /\ bucket' = bucket)]_vars

C6_Witness ==
    /\ pc = "gate"
    /\ NoIncumbentInStore
    /\ CandidateF1 = 1
    /\ Get(model_evaluation_artifact).is_model_accepted

RequiredColumns == NumericalColumns \cup CategoricalColumns
ColumnCountMatches(path) ==
    Cardinality(Get(fs[path]).columns) = Cardinality(SchemaColumns)
RequiredColumnsPresent(path) == RequiredColumns \subseteq Get(fs[path]).columns
InMessage(message, entry) == \E i \in 1..Len(message) : message[i] = entry
Count(violated) == IF violated THEN 1 ELSE 0

\* C7: the validation status is true iff both partitions have the schema's
\* column count and every required numerical and categorical column; a
\* false status comes with a message that has exactly one entry for each
\* violated check of each partition.
C7_ValidationStatusAndMessage ==
    IsSome(data_validation_artifact) =>
        LET v == Get(data_validation_artifact)
        IN  /\ v.validation_status <=>
                  /\ ColumnCountMatches(TrainingFile)
                  /\ RequiredColumnsPresent(TrainingFile)
                  /\ ColumnCountMatches(TestingFile)
                  /\ RequiredColumnsPresent(TestingFile)
            /\ ~v.validation_status =>
                  /\ InMessage(v.message, "Training dataset has incorrect number of columns.")
                        <=> ~ColumnCountMatches(TrainingFile)
                  /\ InMessage(v.message, "Training dataset is missing required columns.")
                        <=> ~RequiredColumnsPresent(TrainingFile)
                  /\ InMessage(v.message, "Testing dataset has incorrect number of columns.")
                        <=> ~ColumnCountMatches(TestingFile)
                  /\ InMessage(v.message, "Testing dataset is missing required columns.")
                        <=> ~RequiredColumnsPresent(TestingFile)
                  /\ Len(v.message) = Count(~ColumnCountMatches(TrainingFile))
                                      + Count(~RequiredColumnsPresent(TrainingFile))
                                      + Count(~ColumnCountMatches(TestingFile))
                                      + Count(~RequiredColumnsPresent(TestingFile))

C7_Witness ==
    /\ IsSome(data_validation_artifact)
    /\ ~Get(data_validation_artifact).validation_status
    /\ Get(data_validation_artifact).message
          = <<"Testing dataset is missing required columns.">>

InfrastructureMessages == {<<"schema file not readable">>,
                           <<"partition file not readable">>,
                           <<"validation report not writable">>}

\* C8: with readable partition files the validation stage raises only for
\* an infrastructure error (schema, partition or report file), never for a
\* failed schema check: a failed check is returned as an artifact with
\* status false and the run goes on to the next stage.
C8_FailedValidationIsReturned ==
    /\ (IsSome(error) /\ Get(error).stage = "validation") =>
          /\ Get(error).message \in InfrastructureMessages
          /\ data_validation_artifact = None
    /\ IsSome(data_validation_artifact) =>
          /\ error = None \/ Get(error).stage # "validation"
          /\ Len(calls) = 2 => (pc = "transformation" /\ error = None)

C8_Witness ==
    /\ IsSome(data_validation_artifact)
    /\ ~Get(data_validation_artifact).validation_status
    /\ Len(Get(data_validation_artifact).message) = 4
    /\ pc = "transformation"
    /\ error = None

\* C9: a transformation stage given a validation artifact with status false
\* raises; nothing is read (the error never comes from read_data), no
\* transformer and no matrix is persisted, no artifact is returned, and the
\* error initiate_data_transformation raises carries the validation message.
C9_TransformationRejectsFailedValidation ==
    (Invoked("transformation") /\ ~Get(data_validation_artifact).validation_status) =>
        /\ pc = "raised"
        /\ data_transformation_artifact = None
        /\ fs[TransformedObjectFile] = None
        /\ fs[TransformedTrainFile] = None
        /\ fs[TransformedTestFile] = None
        /\ Get(error).stage = "transformation"
        /\ Get(error).origin \in {"__init__", "initiate_data_transformation"}
        /\ Get(error).origin = "initiate_data_transformation" =>
              Get(error).message = Get(data_validation_artifact).message

C9_Witness ==
    /\ Invoked("transformation")
    /\ ~Get(data_validation_artifact).validation_status
    /\ Len(Get(data_validation_artifact).message) = 2
    /\ IsSome(error)
    /\ Get(error).message = Get(data_validation_artifact).message

\* C10: the training stage raises whenever the accuracy recomputed on the
\* train matrix is strictly below expected_accuracy (so a floor above 1.0
\* rejects every fit, a floor of 0 none, and an accuracy equal to the floor
\* passes); a rejected run writes no bundle and returns no artifact, and a
\* bundle exists only once the gate has passed.
C10_AccuracyGate ==
    /\ (IsSome(train_accuracy) /\ Get(train_accuracy) < expected_accuracy) =>
          /\ pc = "raised"
          /\ Get(error).stage = "training"
          /\ Get(error).origin = "initiate_model_trainer"
          /\ model_trainer_artifact = None
          /\ fs[TrainedModelFile] = None
    /\ expected_accuracy = ScoreScale + 1 =>
          (model_trainer_artifact = None /\ fs[TrainedModelFile] = None)
    /\ (IsSome(train_accuracy) /\ Get(train_accuracy) >= expected_accuracy) =>
          ~(IsSome(error) /\ Get(error).origin = "initiate_model_trainer")
    /\ IsSome(fs[TrainedModelFile]) =>
          (IsSome(train_accuracy) /\ Get(train_accuracy) >= expected_accuracy)
    /\ IsSome(model_trainer_artifact) => IsSome(fs[TrainedModelFile])

C10_Witness ==
    /\ IsSome(train_accuracy)
    /\ Get(train_accuracy) < expected_accuracy
    /\ expected_accuracy <= ScoreScale
    /\ pc = "raised"
    /\ fs[TrainedModelFile] = None

\* C11: initiate_model_pusher uploads the bundle file named by the evaluation
\* artifact's trained_model_path to the configured bucket and key, whether or
\* not an object is already stored there; the pusher artifact exists only
\* after the upload succeeded and names the configured bucket and key; a
\* failed promotion raises, produces no artifact and leaves the store as it
\* was.
C11_PusherUploadsToConfiguredKey ==
    /\ [](IsSome(model_pusher_artifact) =>
            /\ Get(model_pusher_artifact) =
                  [bucket_name |-> BucketName, s3_model_path |-> PusherModelKey]
            /\ IsSome(fs[Get(model_evaluation_artifact).trained_model_path])
            /\ bucket[PusherModelKey] =
                  fs[Get(model_evaluation_artifact).trained_model_path])
    /\ []((Invoked("promotion") /\ model_pusher_artifact = None) =>
            /\ pc = "raised"
            /\ IsSome(error)
            /\ Get(error).stage = "promotion")
    /\ [][(pc = "gate" /\ calls' # calls) =>
            IF pc' = "returned"
            THEN /\ IsSome(model_pusher_artifact')
                 /\ bucket' = [bucket EXCEPT ![PusherModelKey] =
                                  fs[Get(model_evaluation_artifact).trained_model_path]]
            ELSE /\ pc' = "raised"
                 /\ model_pusher_artifact' = None
                 /\ bucket' = bucket]_vars

\* A bundle was promoted over the incumbent evaluation had compared against.
C11_Witness ==
    /\ pc = "returned"
    /\ IsSome(model_pusher_artifact)
    /\ IsSome(Get(evaluate_model_response).best_model_f1_score)
    /\ bucket[LongerKey] = None
    /\ bucket[PusherModelKey] = fs[TrainedModelFile]
    /\ bucket[PusherModelKey] # Some(IncumbentBundle)

\* C12: promotion is idempotent: the local bundle file is never removed or
\* altered by a promotion, so after initiate_model_pusher returned a further
\* run with the same evaluation artifact succeeds whenever its upload does,
\* returns the same artifact and leaves the model store exactly as the first
\* run left it; a further run that fails leaves the store as it was too.
C12_PromotionIdempotent ==
    /\ [][fs' = fs]_vars
    /\ [](pc = "returned" =>
            /\ Readable(fs, Get(model_evaluation_artifact).trained_model_path)
            /\ initiate_model_pusher(fs, bucket, S3Client, created,
                                     Get(model_evaluation_artifact), "none").ok)
    /\ [][(pc = "returned" /\ calls' # calls) =>
            /\ bucket' = bucket
            /\ (pc' = "returned" => model_pusher_artifact' = model_pusher_artifact)]_vars

\* The pusher returned twice over a store that held an incumbent or not.
C12_Witness ==
    /\ pc = "returned"
    /\ Len(calls) = 2
    /\ calls[1] = calls[2]
    /\ IsSome(model_pusher_artifact)
    /\ IsSome(fs[TrainedModelFile])
    /\ bucket[PusherModelKey] = fs[TrainedModelFile]

\* C13: every object-store I/O failure is fatal: once the check for an
\* incumbent has failed, the run has ended with an error of the evaluation
\* stage and promotion is neither invoked nor performed; a failed download of
\* the incumbent or a failed promotion upload likewise ends the run with an
\* error and without a pusher artifact.
C13_StoreFailureIsFatal ==
    /\ ErrorCheckingModelPresence \in logged =>
          /\ pc = "raised"
          /\ IsSome(error)
          /\ Get(error).stage = "evaluation"
          /\ ~Invoked("promotion")
          /\ model_pusher_artifact = None
    /\ (IsSome(error) /\ Get(error).origin \in {"predict", "save_model"}) =>
          /\ pc = "raised"
          /\ model_pusher_artifact = None

ExportedDataIsEmpty == <<"Exported data is empty. Check MongoDB collection.">>

\* C14: an empty fetched collection makes initiate_data_ingestion raise with
\* nothing persisted: the run has then ended in ingestion with no file on
\* disk, no artifact and no later stage invoked; so whatever the feature
\* store holds is a non-empty table, and an ingestion artifact exists only
\* over a non-empty feature store.
C14_EmptyCollectionRaises ==
    /\ (IsSome(error) /\ Get(error).message = ExportedDataIsEmpty) =>
          /\ pc = "raised"
          /\ Get(error).stage = "ingestion"
          /\ Len(calls) = 1
          /\ \A p \in Paths : fs[p] = None
          /\ \A stage \in {StageOrder[i] : i \in 1..Len(StageOrder)} :
                ArtifactOf(stage) = None
    /\ IsSome(fs[FeatureStoreFile]) => ~DataFrameEmpty(Get(fs[FeatureStoreFile]))
    /\ IsSome(data_ingestion_artifact) => IsSome(fs[FeatureStoreFile])

\* The collection was fetched over a working connection and was empty.
C14_Witness ==
    /\ pc = "raised"
    /\ Get(error).message = ExportedDataIsEmpty
    /\ Get(error).origin = "export_data_into_feature_store"
    /\ MongoDBClient.client # None
    /\ fs[FeatureStoreFile] = None

TrainSetEmpty == <<"the resulting train set will be empty">>
PartitionNotWritable == {<<"training file not writable">>, <<"testing file not writable">>}

\* The two partition files hold a split of the table in the feature store:
\* every row in exactly one of them, the counts summing to n, and the test
\* count equal to r * n rounded up (0 <= test - r * n < 1).
IsSplitOfFeatureStore ==
    /\ IsSome(fs[FeatureStoreFile])
    /\ IsSome(fs[TrainingFile])
    /\ IsSome(fs[TestingFile])
    /\ LET rows == Get(fs[FeatureStoreFile]).rows
           train == Get(fs[TrainingFile]).rows
           test == Get(fs[TestingFile]).rows
           n == Cardinality(rows)
       IN  /\ train \cap test = {}
           /\ train \cup test = rows
           /\ Cardinality(train) + Cardinality(test) = n
           /\ TestSizeDen * Cardinality(test) - TestSizeNum * n \in 0..(TestSizeDen - 1)

\* C15 as claimed: every non-empty table that was fetched and stored is
\* split (unless a partition file could not be written): every row in
\* exactly one partition, counts summing to n, test count r * n within
\* rounding.
C15_EveryNonEmptyTableIsSplit ==
    (/\ IsSome(fs[FeatureStoreFile])
     /\ ~(IsSome(error) /\ Get(error).message \in PartitionNotWritable)) =>
        IsSplitOfFeatureStore

\* C15: every table of n rows whose train partition n - ceil(r * n) is not
\* empty is split (unless a partition file could not be written) with every
\* row in exactly one partition, counts summing to n and the test count
\* equal to ceil(r * n), which is 20 of 100 rows at r = 0.2; a non-empty
\* table too small for that makes the split raise with no partition written;
\* an ingestion artifact exists only over such a split.
C15_SplitPartitionsRows ==
    /\ IsSome(fs[FeatureStoreFile]) =>
          LET n == Cardinality(Get(fs[FeatureStoreFile]).rows)
              unwritable == IsSome(error) /\ Get(error).message \in PartitionNotWritable
              too_small == IsSome(error) /\ Get(error).message = TrainSetEmpty
          IN  /\ n >= 1
              /\ (n - NTest(n) >= 1 /\ ~unwritable) =>
                    /\ IsSplitOfFeatureStore
                    /\ Cardinality(Get(fs[TestingFile]).rows) = NTest(n)
                    /\ IsSome(data_ingestion_artifact)
              /\ too_small <=> (n - NTest(n) = 0)
              /\ too_small =>
                    /\ pc = "raised"
                    /\ fs[TrainingFile] = None
                    /\ fs[TestingFile] = None
                    /\ data_ingestion_artifact = None
    /\ IsSome(data_ingestion_artifact) => IsSplitOfFeatureStore
    /\ NTest(100) = 20
    /\ 100 - NTest(100) = 80

\* A table of at least three rows was split into unequal partitions.
C15_Witness ==
    /\ IsSome(data_ingestion_artifact)
    /\ IsSplitOfFeatureStore
    /\ Cardinality(Get(fs[TestingFile]).rows) = 1
    /\ Cardinality(Get(fs[TrainingFile]).rows) >= 2

S3Initialized == S3Client.s3_client # None /\ S3Client.s3_resource # None

\* C16: across any sequence of S3Client and MongoDBClient constructions the
\* connection is created by a construction only; once a creation has
\* succeeded the class-level objects are never replaced and nothing more is
\* created for that class; every instance ever returned holds exactly the
\* shared class-level objects, none of them null; and after a construction
\* that failed the class is still uninitialised, so the next construction
\* initialises again.
C16_ConnectionSingletons ==
    /\ [][/\ S3Initialized => S3Client' = S3Client
          /\ MongoDBClient.client # None => MongoDBClient' = MongoDBClient
          /\ (S3Initialized /\ MongoDBClient.client # None) => created' = created]_vars
    /\ [](\A instance \in s3_instances :
            /\ instance = S3Client
            /\ instance.s3_client # None
            /\ instance.s3_resource # None)
    /\ [](\A instance \in mongo_instances :
            /\ instance = MongoDBClient
            /\ instance.client # None)
    /\ []((s3_instances = {}) <=> ~S3Initialized)
    /\ []((mongo_instances = {}) <=> (MongoDBClient.client = None))
    /\ []((IsSome(error) /\ Get(error).stage = "S3Client") =>
            /\ ~S3Initialized
            /\ \E fault \in S3ClientFaults \cup {"none"} :
                  S3Client_init(S3Client, created, fault).created > created)
    /\ []((IsSome(error) /\ Get(error).stage = "MongoDBClient") =>
            MongoDBClient.client = None)

\* An S3Client was returned after an earlier attempt had created a resource
\* and then failed, and a MongoDBClient was returned as well.
C16_Witness ==
    /\ S3Initialized
    /\ s3_instances = {S3Client}
    /\ mongo_instances = {MongoDBClient}
    /\ MongoDBClient.client # None
    /\ created > 3

Stages == {StageOrder[i] : i \in 1..Len(StageOrder)}
ConnectionObjects == {None} \cup {Some(i) : i \in 1..created}

\* The local files an artifact names.
PathsNamedBy(stage) ==
    LET artifact == Get(ArtifactOf(stage))
    IN  CASE stage = "ingestion" -> {artifact.trained_file_path, artifact.test_file_path}
          [] stage = "validation" -> {artifact.validation_report_file_path}
          [] stage = "transformation" -> {artifact.transformed_object_file_path,
                                          artifact.transformed_train_file_path,
                                          artifact.transformed_test_file_path}
          [] stage = "training" -> {artifact.trained_model_file_path}
          [] stage = "evaluation" -> {artifact.trained_model_path}
          [] stage = "promotion" -> {}

\* C17: pipeline data flows forward through the artifacts passed explicitly:
\* every argument a stage was invoked with is the artifact an earlier stage
\* of the run returned; an artifact, once returned, is never changed; every
\* file an artifact names was already written when the artifact was returned
\* (no reference to a later stage's output); and the connection singletons
\* hold connection objects only, nothing of the run's artifacts or files.
C17_ForwardDataFlow ==
    /\ [][\A stage \in Stages :
            IsSome(ArtifactOf(stage)) => ArtifactOf(stage)' = ArtifactOf(stage)]_vars
    /\ [](\A i \in 1..Len(calls) : \A k \in 1..Len(calls[i].args) :
            \E j \in 1..(i - 1) : Some(calls[i].args[k]) = ArtifactOf(StageOrder[j]))
    /\ [](\A stage \in Stages :
            IsSome(ArtifactOf(stage)) =>
                /\ Invoked(stage)
                /\ \A p \in PathsNamedBy(stage) : IsSome(fs[p]))
    /\ [][\A stage \in Stages :
            (ArtifactOf(stage) = None /\ IsSome(ArtifactOf(stage)')) =>
                \A p \in (PathsNamedBy(stage))' : IsSome(fs'[p])]_vars
    /\ [](/\ S3Client \in [s3_client : ConnectionObjects, s3_resource : ConnectionObjects]
          /\ MongoDBClient \in [client : ConnectionObjects]
          /\ s3_instances \subseteq {S3Client}
          /\ mongo_instances \subseteq {MongoDBClient})

\* Evaluation has returned on the artifacts of ingestion and training, over
\* connections built by the stages before it.
C17_Witness ==
    /\ pc = "gate"
    /\ Len(calls) = 5
    /\ calls[5].args = <<Get(data_ingestion_artifact), Get(model_trainer_artifact)>>
    /\ IsSome(model_evaluation_artifact)
    /\ Get(model_evaluation_artifact).trained_model_path =
          Get(model_trainer_artifact).trained_model_file_path
    /\ S3Client.s3_client # None
    /\ MongoDBClient.client # None

\* The files a stage that raised with this message had persisted before the
\* fault.
WrittenBeforeFault(message) ==
    CASE message = TrainSetEmpty -> {FeatureStoreFile}
      [] message = <<"training file not writable">> -> {FeatureStoreFile}
      [] message = <<"testing file not writable">> -> {FeatureStoreFile, TrainingFile}
      [] message = <<"train matrix not writable">> -> {TransformedObjectFile}
      [] message = <<"test matrix not writable">> -> {TransformedObjectFile, TransformedTrainFile}
      [] OTHER -> {}

\* C18: a raise rolls nothing back: no step, raising or not, changes or
\* removes a file that was already persisted; when a stage has raised, the
\* files named by the artifacts of the earlier stages and the files the
\* failing stage wrote before its fault are all on disk; and the model store
\* changes only in the step in which the promotion upload completes.
C18_NoRollbackOnFailure ==
    /\ [][\A p \in Paths : IsSome(fs[p]) => fs'[p] = fs[p]]_vars
    /\ [](pc = "raised" =>
            /\ \A stage \in Stages :
                  IsSome(ArtifactOf(stage)) =>
                      \A p \in PathsNamedBy(stage) : IsSome(fs[p])
            /\ IsSome(data_ingestion_artifact) => IsSome(fs[FeatureStoreFile])
            /\ \A p \in WrittenBeforeFault(Get(error).message) : IsSome(fs[p]))
    /\ [][bucket' # bucket =>
            /\ pc = "gate"
            /\ pc' = "returned"
            /\ IsSome(model_pusher_artifact')
            /\ bucket' = [bucket EXCEPT ![PusherModelKey] = fs[TrainedModelFile]]]_vars
    /\ []((pc = "raised" /\ model_pusher_artifact = None) =>
            \A k \in S3Keys : bucket[k] \in {None, Some(IncumbentBundle)})

\* Transformation raised while saving the test matrix: the files of
\* ingestion and validation, the transformer and the train matrix remain.
C18_Witness ==
    /\ pc = "raised"
    /\ Get(error).stage = "transformation"
    /\ Get(error).message = <<"test matrix not writable">>
    /\ \A p \in {FeatureStoreFile, TrainingFile, TestingFile, ReportFile,
                 TransformedObjectFile, TransformedTrainFile} : IsSome(fs[p])
    /\ fs[TransformedTestFile] = None

ValidationFailed ==
    /\ IsSome(data_validation_artifact)
    /\ ~Get(data_validation_artifact).validation_status

\* C19: a failed validation does not stop the run by itself but is enforced
\* downstream: whenever validation has returned status false, its report is
\* on disk with that status, the run is either about to invoke
\* transformation or has raised in transformation, and training, evaluation
\* and promotion have not been invoked; and every such run goes on to invoke
\* transformation and ends raised with an error of the transformation stage.
C19_FailedValidationEnforcedDownstream ==
    /\ [](ValidationFailed =>
            /\ IsSome(fs[ReportFile])
            /\ ~Get(fs[ReportFile]).validation_status
            /\ \/ pc = "transformation" /\ error = None /\ Len(calls) = 2
               \/ /\ pc = "raised"
                  /\ Len(calls) = 3
                  /\ calls[3].stage = "transformation"
                  /\ Get(error).stage = "transformation"
                  /\ data_transformation_artifact = None
            /\ ~Invoked("training")
            /\ ~Invoked("evaluation")
            /\ ~Invoked("promotion"))
    /\ ValidationFailed ~>
          (/\ pc = "raised"
           /\ Invoked("transformation")
           /\ Get(error).stage = "transformation")
    /\ [][ValidationFailed => pc' \in {"transformation", "raised"}]_vars

\* The run was aborted by transformation over a report that records the
\* failed verdict of both partitions.
C19_Witness ==
    /\ ValidationFailed
    /\ pc = "raised"
    /\ Len(calls) = 3
    /\ Get(error).stage = "transformation"
    /\ Get(error).origin = "initiate_data_transformation"
    /\ IsSome(fs[ReportFile])
    /\ Len(Get(fs[ReportFile]).message) = 4
    /\ model_trainer_artifact = None

\* C20: whenever initiate_data_validation has returned an artifact, with a
\* passed or a failed verdict, the artifact's validation_report_file_path is
\* the configured report path, a report is on disk there, and the report's
\* validation_status and message equal the artifact's.
C20_ReportMatchesArtifact ==
    IsSome(data_validation_artifact) =>
        LET artifact == Get(data_validation_artifact)
            path == artifact.validation_report_file_path
        IN  /\ path = ReportFile
            /\ IsSome(fs[path])
            /\ Get(fs[path]).validation_status = artifact.validation_status
            /\ Get(fs[path]).message = artifact.message
            /\ artifact.validation_status <=>
                  (artifact.message = <<"No validation errors found.">>)

\* Validation returned a failed verdict for the training partition only and
\* the report on disk records it.
C20_Witness ==
    /\ Invoked("validation")
    /\ IsSome(data_validation_artifact)
    /\ IsSome(fs[ReportFile])
    /\ Get(fs[ReportFile]) =
          [validation_status |-> FALSE,
           message |-> <<"Training dataset has incorrect number of columns.">>]

\* ------------------------------------------------------------------- C21
\* Bundles load_object could have read in place of the one the trainer saved.
OtherBundles ==
    {MyModel([fitted_on |-> rows], [trained_on |-> rows]) : rows \in SUBSET (0..1)}

\* C21: the candidate score of the decision is exactly the f1_score of the
\* trainer's artifact: the response carries it, acceptance and difference are
\* computed from it, and with any other bundle stored at the trained model
\* path evaluate_model gives the same response for every incumbent and fault.
C21_CandidateScoreFromTrainerArtifact ==
    /\ IsSome(evaluate_model_response) =>
          LET response == Get(evaluate_model_response)
              tmp_best_model_score == OrZero(response.best_model_f1_score)
          IN  /\ response.trained_model_f1_score = CandidateF1
              /\ response.is_model_accepted = (CandidateF1 > tmp_best_model_score)
              /\ response.difference = CandidateF1 - tmp_best_model_score
    /\ pc = "evaluation" =>
          \A fault \in EvaluationFaults, incumbent_f1 \in Scores, bundle \in OtherBundles :
             Readable(fs, TrainedModelFile) =>
                evaluate_model(WriteFile(fs, TrainedModelFile, bundle), bucket,
                               S3Client, created, Get(data_ingestion_artifact),
                               Get(model_trainer_artifact), incumbent_f1, fault).artifact
                = evaluate_model(fs, bucket, S3Client, created,
                                 Get(data_ingestion_artifact),
                                 Get(model_trainer_artifact), incumbent_f1, fault).artifact

\* Evaluation decided with a trainer F1 of zero although the bundle it loaded
\* was trained on two rows.
C21_Witness ==
    /\ pc = "gate"
    /\ IsSome(evaluate_model_response)
    /\ CandidateF1 = 0
    /\ Cardinality(Get(fs[TrainedModelFile]).trained_model_object.trained_on) = 2

\* ------------------------------------------------------------------- C22
\* C22: whenever evaluation compared the candidate with an incumbent, the two
\* F1 values were computed on the same dataset: the data behind the trainer's
\* f1_score is the data the incumbent predicted on.
C22_ScoresOnSameData ==
    (/\ IsSome(evaluate_model_response)
     /\ IsSome(Get(evaluate_model_response).best_model_f1_score)) =>
        /\ Get(data_transformation_artifact).transformed_test_file_path
              = Get(data_ingestion_artifact).test_file_path
        /\ trainer_test_data(fs, Get(data_transformation_artifact))
              = evaluation_test_data(fs, Get(data_ingestion_artifact))

\* ------------------------------------------------------------------- C23
\* C23: for every raw feature table, with or without the Gender column and
\* with the schema's identifier column, the custom transformations of
\* DataTransformation and ModelEvaluation._preprocess_features behave
\* identically: both succeed and give the same columns with the same dtypes.
C23_PreprocessingPathsAgree ==
    \A i \in 1..Len(calls), j \in 1..Len(calls) :
       (calls[i].stage = "transformation" /\ calls[j].stage = "evaluation") =>
          calls[i].result = calls[j].result

\* ------------------------------------------------------------------- C24
\* Tables the testing file could hold in place of the one ingestion wrote.
OtherTestTables ==
    {[rows |-> rows, columns |-> columns] :
        rows \in SUBSET (1..MaxRows), columns \in {SchemaColumns, AllColumns}}

\* C24: the preprocessor transformation saves is fitted on the rows of the
\* training partition only, and both saved matrices were transformed by that
\* fitted preprocessor (the fit comes before the transform of the test
\* partition); with the same training file and any other testing file,
\* transformation saves the identical preprocessor.
C24_ScalerFittedOnTrainOnly ==
    /\ IsSome(data_transformation_artifact) =>
          LET artifact == Get(data_transformation_artifact)
              preprocessor == Get(fs[artifact.transformed_object_file_path])
              train_df == Get(fs[Get(data_ingestion_artifact).trained_file_path])
              test_df == Get(fs[Get(data_ingestion_artifact).test_file_path])
          IN  /\ preprocessor.fitted_on = train_df.rows
              /\ preprocessor.fitted_on \cap test_df.rows = {}
              /\ Get(fs[artifact.transformed_test_file_path]).scaled_by = preprocessor
              /\ Get(fs[artifact.transformed_train_file_path]).scaled_by = preprocessor
    /\ (pc = "transformation" /\ Get(data_validation_artifact).validation_status) =>
          \A fault \in TransformationFaults, test_df \in OtherTestTables :
             LET here == initiate_data_transformation(
                             fs, Get(data_ingestion_artifact),
                             Get(data_validation_artifact), fault)
                 there == initiate_data_transformation(
                              WriteFile(fs, TestingFile, test_df),
                              Get(data_ingestion_artifact),
                              Get(data_validation_artifact), fault)
             IN  there.fs[TransformedObjectFile] = here.fs[TransformedObjectFile]

\* Transformation returned after fitting on two training rows, with one
\* held-out row in the test matrix.
C24_Witness ==
    /\ IsSome(data_transformation_artifact)
    /\ Cardinality(Get(fs[TransformedObjectFile]).fitted_on) = 2
    /\ Cardinality(Get(fs[TransformedTestFile]).resampled_from) = 1
    /\ Get(fs[TransformedTestFile]).scaled_by = Get(fs[TransformedObjectFile])

\* ------------------------------------------------------------------- C25
\* C25: the artifact the trainer returns carries the four metrics computed on
\* the held-out test matrix (accuracy, F1, precision, recall) and the path of
\* the bundle that pairs the loaded transformer with the fitted classifier.
C25_ArtifactCarriesFourMetrics ==
    IsSome(model_trainer_artifact) =>
        LET artifact == Get(model_trainer_artifact)
            bundle == Get(fs[artifact.trained_model_file_path])
        IN  /\ {"f1_score", "precision_score", "recall_score"}
                  \subseteq DOMAIN artifact.metric_artifact
            /\ Cardinality(DOMAIN artifact.metric_artifact) = 4
            /\ bundle.preprocessing_object = Get(fs[TransformedObjectFile])
            /\ bundle.trained_model_object.trained_on
                  = Get(fs[TransformedTrainFile]).resampled_from

\* ------------------------------------------------------------------- C27
\* C27: a working presence check answers that the incumbent is present
\* exactly when an object is stored under the configured key itself; an
\* evaluation that compared against an incumbent found one under that key;
\* and an incumbent reported present can be loaded as one object.
C27_PresentIffStoredUnderExactKey ==
    /\ is_model_present(bucket, EvalModelKey, FALSE) <=> IsSome(bucket[EvalModelKey])
    /\ (/\ IsSome(evaluate_model_response)
        /\ IsSome(Get(evaluate_model_response).best_model_f1_score)) =>
          IsSome(bucket[EvalModelKey])
    /\ is_model_present(bucket, EvalModelKey, FALSE) => Loadable(bucket, EvalModelKey)

\* ------------------------------------------------------------------- C26
\* C26: the key promotion overwrites is the key evaluation inspected, and the
\* incumbent an accepted candidate was compared against is the object stored
\* under the key promotion is about to overwrite.
C26_PromotionReplacesComparedIncumbent ==
    /\ IsSome(model_evaluation_artifact) =>
          Get(model_evaluation_artifact).s3_model_path = PusherModelKey
    /\ (IsSome(model_evaluation_artifact) /\ IsSome(model_pusher_artifact)) =>
          Get(model_pusher_artifact).s3_model_path
             = Get(model_evaluation_artifact).s3_model_path
    /\ (/\ pc = "gate"
        /\ Get(model_evaluation_artifact).is_model_accepted
        /\ IsSome(Get(evaluate_model_response).best_model_f1_score)) =>
          MatchingKeys(bucket, EvalModelKey) = {PusherModelKey}

\* ------------------------------------------------------------------- C28
\* C28: the evaluation step, whatever its outcome, leaves the model store and
\* the local files (the trained bundle among them) as they are, and so does
\* the return that ends a run whose candidate was not accepted: after a
\* rejected run the incumbent is unchanged.
C28_EvaluationReadOnly ==
    [][/\ pc = "evaluation" => (bucket' = bucket /\ fs' = fs)
       /\ (pc = "gate" /\ ~Get(model_evaluation_artifact).is_model_accepted) =>
             (/\ bucket' = bucket
              /\ fs'[TrainedModelFile] = fs[TrainedModelFile]
              /\ model_pusher_artifact' = None)]_vars

\* A run ended without promotion: the candidate was compared with the
\* incumbent stored under the configured key, rejected, and the incumbent is
\* still there beside the trained bundle.
C28_Witness ==
    /\ pc = "returned"
    /\ IsSome(model_evaluation_artifact)
    /\ ~Get(model_evaluation_artifact).is_model_accepted
    /\ IsSome(Get(evaluate_model_response).best_model_f1_score)
    /\ bucket[EvalModelKey] = Some(IncumbentBundle)
    /\ IsSome(fs[TrainedModelFile])
    /\ model_pusher_artifact = None

\* ------------------------------------------------------------------- C29
Downloads ==
    {i \in 1..Len(calls) :
        calls[i].stage \in {"load_model", "predict"} /\ calls[i].result.downloaded}
SavedAt(j) == calls[j].stage = "save_model" /\ calls[j].result.ok

\* C29: over any calls of load_model, predict and save_model on one
\* ProjEstimator the store gives the bundle at most once, and a predict that
\* follows a save_model predicts with the bundle the latest save_model
\* uploaded.
C29_CacheReusedAndRefreshedBySave ==
    /\ Cardinality(Downloads) <= 1
    /\ \A j \in 1..Len(calls), i \in 1..Len(calls) :
          (/\ j < i
           /\ SavedAt(j)
           /\ \A k \in (j + 1)..(i - 1) : ~SavedAt(k)
           /\ calls[i].stage = "predict"
           /\ calls[i].result.ok) =>
              calls[i].result.used = calls[j].result.uploaded

\* ------------------------------------------------------------------- C30
\* C30: an upload deletes the local file only when remove is true and only
\* once the object is stored; an upload that fails leaves the local files and
\* the bucket as they were and raises; and save_model as promotion calls it
\* (remove left at its default) keeps the local bundle whether or not the
\* upload succeeds.
C30_UploadRemovesOnlyOnRequest ==
    /\ [](\A fails \in BOOLEAN :
             save_model(fs, bucket, PusherModelKey, TrainedModelFile, fails).fs = fs)
    /\ [][(/\ Len(calls') = Len(calls) + 1
           /\ calls'[Len(calls')].stage = "save_model") =>
             LET call == calls'[Len(calls')]
                 remove == call.args[2]
             IN  /\ (fs' # fs) <=> (remove /\ call.result.ok)
                 /\ (fs' # fs) =>
                       /\ fs' = [fs EXCEPT ![TrainedModelFile] = None]
                       /\ bucket'[PusherModelKey] = fs[TrainedModelFile]
                 /\ call.result.ok =>
                       /\ bucket' = [bucket EXCEPT ![PusherModelKey] = fs[TrainedModelFile]]
                       /\ error' = None
                 /\ ~call.result.ok =>
                       /\ fs' = fs
                       /\ bucket' = bucket
                       /\ IsSome(error')]_vars

\* An upload asked to remove the file failed and left the bundle on disk, and
\* the next one stored the bundle and removed it.
C30_Witness ==
    /\ Len(calls) = 2
    /\ calls[1].stage = "save_model" /\ calls[1].args[2] /\ ~calls[1].result.ok
    /\ calls[2].stage = "save_model" /\ calls[2].args[2] /\ calls[2].result.ok
    /\ fs[TrainedModelFile] = None
    /\ IsSome(bucket[PusherModelKey])
    /\ bucket[PusherModelKey] # Some(IncumbentBundle)

====
